---- MODULE Spec2Model ----
(***************************************************************************)
(* Model of clipper-glyco.cpp (class MSugar): the bond oracle, the         *)
(* conformation classifiers and the MSugar constructor.                    *)
(*                                                                         *)
(* Units.  Distances are integers in hundredths of an Angstrom (1.18 A is  *)
(* 118), bond RMSDs in thousandths of an Angstrom (0.035 A is 35), angles  *)
(* and angle RMSDs in half degrees (22.5 degrees is 45).                   *)
(***************************************************************************)
EXTENDS Integers, Sequences, FiniteSets, TLC

VARIABLES
    \* ---- bond oracle harness ----
    bond_pc,            \* "idle" | "done"
    bond_overload,      \* which overload of bonded() was called
    ma_one, ma_two,     \* element symbols of the two atoms
    distance,           \* distance between the two atoms
    bond_fwd,           \* bonded(ma_one, ma_two)
    bond_rev,           \* bonded(ma_two, ma_one)
    \* ---- conformation classifier harness ----
    conf_pc,            \* "idle" | "pyranose" | "furanose"
    phi, theta,         \* arguments of the classifier
    confCode,           \* value returned by the classifier
    \* ---- MSugar constructor ----
    pc,                 \* position in the constructor
    ran,                \* constructor blocks executed so far
    sugar_found_db,
    db_handedness,      \* sugar_database[sugar_index].handedness
    db_anomer,          \* sugar_database[sugar_index].anomer
    sugar_supported,
    sugar_sane,
    sugar_denomination,
    sugar_anomer,
    sugar_handedness,
    sugar_ring_elements,
    sugar_conformation,
    sugar_ring_bond_rmsd,
    sugar_ring_angle_rmsd,
    sugar_diag_ring,
    sugar_diag_chirality,
    sugar_diag_anomer,
    sugar_diag_bonds_rmsd,
    sugar_diag_angles_rmsd,
    \* ---- ring finder harness ----
    ring_pc,            \* "idle" | "found" | "reordered"
    ring_mm,            \* the monomer searched
    ring_buffer,        \* the path returned by findPath
    ring_cycle,         \* the path trimmed to the cycle
    ring_result,        \* the value returned by ringMembers
    ring_again,         \* canonical reordering applied to ring_result
    \* ---- anomer and handedness harness ----
    pk_pc,              \* "idle" | "pyranose" | "furanose"
    pk_ring,            \* ring_atoms
    pk_cc,              \* stereo.second.first, the configurational carbon
    pk_z,               \* heights along the mean-plane normal
    pk_neighbourhood,   \* atoms_near(ring-closing carbon)
    pk_lurd,            \* lurd_reverse
    pk_anomer,          \* sugar_anomer
    pk_substituent,     \* nz6_substituent / nz5_substituent
    pk_handedness,      \* sugar_handedness
    \* ---- get_stereochemistry ----
    gs_pc,              \* "idle" | "scan" | "walk" | "done"
    gs_mol,             \* the structure the sugar sits in
    gs_anomeric_carbon,
    gs_anomeric_substituent,
    gs_configurational_carbon,
    gs_configurational_substituent,
    gs_next_carbon,
    gs_steps,           \* iterations of the outward walk made so far
    gs_z,               \* heights of the four stereo atoms along the normal
    gs_lurd,            \* lurd_reverse computed from the returned pairs
    gs_anomer,          \* the anomer label decided from them
    \* ---- the pucker analysis run twice on one sugar ----
    cp_pc,              \* "idle" | "once" | "twice"
    cp_input,           \* ring size and the geometry of the sugar
    cp_conformation,    \* sugar_conformation
    cp_stored,          \* sugar_cremer_pople_params
    cp_stored_once,     \* sugar_cremer_pople_params after the first run
    cp_first,           \* vector returned by the first run
    cp_second,          \* vector returned by the second run
    \* ---- the two-argument constructor ----
    tc_pc,              \* "idle" | "index" | "temporary" | "built"
    tc_live,            \* the non-bond indices that exist
    tc_temporary,       \* the unnamed MSugar of line 78, or NoSugar
    tc_reference,       \* what MSugar(ml, mm, nb) built with a 5.0 A index
    tc_sugar,           \* *this, the sugar handed to the caller
    \* ---- construction of a sugar found in the database ----
    tp_pc,              \* "idle" | "built"
    tp_atoms,           \* the atoms of the monomer, in file order
    tp_template,        \* ring_atoms of the database entry, split into names
    tp_ring,            \* sugar_ring_elements
    tp_confcode,        \* sugar_alternate_confcode
    tp_flags,           \* supported, sane, denomination, anomer, handedness
    tp_ran,             \* the analyses the constructor called
    \* ---- the ring search, one loop iteration at a time ----
    fs_pc,              \* "idle" | "search" | "found" | "filtered" | "built" | "crashed"
    fs_mm,              \* the monomer searched
    fs_stack,           \* the frames of findPath, innermost last
    fs_background,      \* the visited arcs
    fs_buffer,          \* the path findPath handed to ringMembers
    fs_reports,         \* the answers closes_ring gave with TRUE
    fs_steps,           \* loop iterations and returns made so far
    fs_ring,            \* sugar_ring_elements
    fs_faults,          \* accesses outside a vector: source line and position
    \* ---- examine_ring: the ring bonds ----
    er_pc,              \* "idle" | "examined"
    er_size,            \* sugar_ring_elements.size()
    er_length,          \* length of the bond from position k to the next
    er_bonds            \* sugar_ring_bonds with the pair and target of each

bondVars == <<bond_pc, bond_overload, ma_one, ma_two, distance, bond_fwd, bond_rev>>

confVars == <<conf_pc, phi, theta, confCode>>

sugarVars == <<pc, ran, sugar_found_db, db_handedness, db_anomer, sugar_supported,
               sugar_sane, sugar_denomination, sugar_anomer, sugar_handedness,
               sugar_ring_elements, sugar_conformation, sugar_ring_bond_rmsd,
               sugar_ring_angle_rmsd, sugar_diag_ring, sugar_diag_chirality,
               sugar_diag_anomer, sugar_diag_bonds_rmsd, sugar_diag_angles_rmsd>>

ringVars == <<ring_pc, ring_mm, ring_buffer, ring_cycle, ring_result, ring_again>>

puckerVars == <<pk_pc, pk_ring, pk_cc, pk_z, pk_neighbourhood, pk_lurd, pk_anomer,
                pk_substituent, pk_handedness>>

stereoVars == <<gs_pc, gs_mol, gs_anomeric_carbon, gs_anomeric_substituent,
                gs_configurational_carbon, gs_configurational_substituent,
                gs_next_carbon, gs_steps, gs_z, gs_lurd, gs_anomer>>

repeatVars == <<cp_pc, cp_input, cp_conformation, cp_stored, cp_stored_once,
                cp_first, cp_second>>

twoArgVars == <<tc_pc, tc_live, tc_temporary, tc_reference, tc_sugar>>

templateVars == <<tp_pc, tp_atoms, tp_template, tp_ring, tp_confcode, tp_flags,
                  tp_ran>>

searchVars == <<fs_pc, fs_mm, fs_stack, fs_background, fs_buffer, fs_reports,
                fs_steps, fs_ring, fs_faults>>

examineVars == <<er_pc, er_size, er_length, er_bonds>>

harnessVars == <<ringVars, puckerVars, stereoVars, repeatVars, twoArgVars, templateVars, searchVars, examineVars>>

vars == <<bondVars, confVars, sugarVars, harnessVars>>

(***************************************************************************)
(* Bounds                                                                  *)
(***************************************************************************)
\* iterations of the outward stereocentre walk that are followed
MaxWalk == 6

\* largest distance tried, hundredths of an Angstrom
MaxDist == 200

\* largest phi tried, half degrees (719 is 359.5 degrees)
MaxPhi == 719

\* largest theta tried, half degrees (360 is 180 degrees)
MaxTheta == 360

\* element symbols; "S" stands for any element other than C, N, O, H
Elements == {"C", "N", "O", "H", "S"}

(***************************************************************************)
(* Bond oracle                                                             *)
(***************************************************************************)
\* MSugar::bonded(const MAtom&, const MAtom&)
bonded(one, two, d) ==
    IF one = "C" THEN
        IF two = "C" THEN (d > 118) /\ (d < 160)
        ELSE IF two = "N" THEN (d > 124) /\ (d < 152)
        ELSE IF two = "O" THEN (d > 116) /\ (d < 150)
        ELSE IF two = "H" THEN (d > 96) /\ (d < 114)
        ELSE FALSE                      \* falls through to the last return
    ELSE IF one = "N" THEN
        IF two = "C" THEN (d > 124) /\ (d < 152)
        ELSE IF two = "H" THEN (d > 90) /\ (d < 110)
        ELSE FALSE
    ELSE IF one = "O" THEN
        IF two = "C" THEN (d > 116) /\ (d < 150)
        ELSE IF two = "H" THEN (d > 88) /\ (d < 104)
        ELSE FALSE
    ELSE (d > 120) /\ (d < 180)         \* unknown bond

\* MSugar::bonded(const MAtomIndexSymmetry&, const MAtom&); d is the distance
\* to the atom itself (symmetry 0) or to its nearest symmetry image
bondedSymmetry(one, two, d) ==
    IF one = "C" THEN
        IF two = "C" THEN (d > 118) /\ (d < 160)
        ELSE IF two = "N" THEN (d > 124) /\ (d < 152)
        ELSE IF two = "O" THEN (d > 116) /\ (d < 150)
        ELSE IF two = "H" THEN (d > 96) /\ (d < 114)
        ELSE FALSE
    ELSE IF one = "N" THEN
        IF two = "C" THEN (d > 124) /\ (d < 152)
        ELSE IF two = "H" THEN (d > 90) /\ (d < 110)
        ELSE FALSE
    ELSE IF one = "O" THEN
        IF two = "C" THEN (d > 116) /\ (d < 150)
        ELSE IF two = "H" THEN (d > 88) /\ (d < 104)
        ELSE FALSE
    ELSE (d > 120) /\ (d < 180)

\* a call of bonded(a, b) and of bonded(b, a) on the same two atoms
BondedCall ==
    /\ bond_pc = "idle"
    /\ \E a \in Elements, b \in Elements, d \in 0..MaxDist :
          /\ ma_one' = a
          /\ ma_two' = b
          /\ distance' = d
          /\ bond_fwd' = bonded(a, b, d)
          /\ bond_rev' = bonded(b, a, d)
    /\ bond_overload' = "MAtom"
    /\ bond_pc' = "done"
    /\ UNCHANGED <<confVars, sugarVars, harnessVars>>

\* the same two calls through the symmetry-aware overload
BondedSymmetryCall ==
    /\ bond_pc = "idle"
    /\ \E a \in Elements, b \in Elements, d \in 0..MaxDist :
          /\ ma_one' = a
          /\ ma_two' = b
          /\ distance' = d
          /\ bond_fwd' = bondedSymmetry(a, b, d)
          /\ bond_rev' = bondedSymmetry(b, a, d)
    /\ bond_overload' = "MAtomIndexSymmetry"
    /\ bond_pc' = "done"
    /\ UNCHANGED <<confVars, sugarVars, harnessVars>>

(***************************************************************************)
(* Conformation classifiers (angles in half degrees)                       *)
(***************************************************************************)
\* "int confCode = 0": the code a classifier returns when no branch assigns
confCodeInit == "0"

\* lines 793-804: the phi ladder of the band 22.5 < theta <= 67.5
envelopesNorth(p) ==
    IF (p > 30) /\ (p <= 90) THEN "conf_pyranose_OH1"
    ELSE IF (p > 90) /\ (p <= 150) THEN "conf_pyranose_E1"
    ELSE IF (p > 150) /\ (p <= 210) THEN "conf_pyranose_2H1"
    ELSE IF (p > 210) /\ (p <= 270) THEN "conf_pyranose_2E"
    ELSE IF (p > 270) /\ (p <= 330) THEN "conf_pyranose_2H3"
    ELSE IF (p > 330) /\ (p <= 390) THEN "conf_pyranose_E3"
    ELSE IF (p > 390) /\ (p <= 450) THEN "conf_pyranose_4H3"
    ELSE IF (p > 450) /\ (p <= 510) THEN "conf_pyranose_4E"
    ELSE IF (p > 510) /\ (p <= 570) THEN "conf_pyranose_4H5"
    ELSE IF (p > 570) /\ (p <= 630) THEN "conf_pyranose_E5"
    ELSE IF (p > 630) /\ (p <= 690) THEN "conf_pyranose_OH5"
    ELSE IF (p > 690) \/ (p <= 30) THEN "conf_pyranose_OE"
    ELSE confCodeInit

\* lines 808-819: the phi ladder of the band 67.5 < theta <= 112.5
boats(p) ==
    IF (p > 30) /\ (p <= 90) THEN "conf_pyranose_3S1"
    ELSE IF (p > 90) /\ (p <= 150) THEN "conf_pyranose_B14"
    ELSE IF (p > 150) /\ (p <= 210) THEN "conf_pyranose_5S1"
    ELSE IF (p > 210) /\ (p <= 270) THEN "conf_pyranose_25B"
    ELSE IF (p > 270) /\ (p <= 330) THEN "conf_pyranose_2SO"
    ELSE IF (p > 330) /\ (p <= 390) THEN "conf_pyranose_B3O"
    ELSE IF (p > 390) /\ (p <= 450) THEN "conf_pyranose_1S3"
    ELSE IF (p > 450) /\ (p <= 510) THEN "conf_pyranose_14B"
    ELSE IF (p > 510) /\ (p <= 570) THEN "conf_pyranose_1S5"
    ELSE IF (p > 570) /\ (p <= 630) THEN "conf_pyranose_B25"
    ELSE IF (p > 630) /\ (p <= 690) THEN "conf_pyranose_OS2"
    ELSE IF (p > 690) \/ (p <= 30) THEN "conf_pyranose_3OB"
    ELSE confCodeInit

\* lines 824-835: the phi ladder of the band 112.5 < theta <= 157.5
envelopesSouth(p) ==
    IF (p > 30) /\ (p <= 90) THEN "conf_pyranose_3H4"
    ELSE IF (p > 90) /\ (p <= 150) THEN "conf_pyranose_E4"
    ELSE IF (p > 150) /\ (p <= 210) THEN "conf_pyranose_5H4"
    ELSE IF (p > 210) /\ (p <= 270) THEN "conf_pyranose_5E"
    ELSE IF (p > 270) /\ (p <= 330) THEN "conf_pyranose_5HO"
    ELSE IF (p > 330) /\ (p <= 390) THEN "conf_pyranose_EO"
    ELSE IF (p > 390) /\ (p <= 450) THEN "conf_pyranose_1HO"
    ELSE IF (p > 450) /\ (p <= 510) THEN "conf_pyranose_1E"
    ELSE IF (p > 510) /\ (p <= 570) THEN "conf_pyranose_1H2"
    ELSE IF (p > 570) /\ (p <= 630) THEN "conf_pyranose_E2"
    ELSE IF (p > 630) /\ (p <= 690) THEN "conf_pyranose_3H2"
    ELSE IF (p > 690) \/ (p <= 30) THEN "conf_pyranose_3E"
    ELSE confCodeInit

\* a chair band that starts at its boundary instead of ending there
conformationPyranoseStrictChair(p, t) ==
    IF t < 45 THEN "conf_pyranose_4C1"
    ELSE IF (t > 45) /\ (t <= 135) THEN envelopesNorth(p)
    ELSE IF (t > 135) /\ (t <= 225) THEN boats(p)
    ELSE IF (t > 225) /\ (t <= 315) THEN envelopesSouth(p)
    ELSE IF t >= 315 THEN "conf_pyranose_1C4"
    ELSE confCodeInit

\* the 1C4 chair band entered ten degrees late
conformationPyranoseLateChair(p, t) ==
    IF t <= 45 THEN "conf_pyranose_4C1"
    ELSE IF (t > 45) /\ (t <= 135) THEN envelopesNorth(p)
    ELSE IF (t > 135) /\ (t <= 225) THEN boats(p)
    ELSE IF (t > 225) /\ (t <= 315) THEN envelopesSouth(p)
    ELSE IF t >= 335 THEN "conf_pyranose_1C4"
    ELSE confCodeInit

\* MSugar::conformationPyranose(phi, theta)
conformationPyranose(p, t) ==
    IF t <= 45 THEN "conf_pyranose_4C1"
    ELSE IF (t > 45) /\ (t <= 135) THEN envelopesNorth(p)
    ELSE IF (t > 135) /\ (t <= 225) THEN boats(p)
    ELSE IF (t > 225) /\ (t <= 315) THEN envelopesSouth(p)
    ELSE IF t >= 315 THEN "conf_pyranose_1C4"
    ELSE confCodeInit

\* MSugar::conformationFuranose(theta)
conformationFuranose(t) ==
    IF (t > 351) \/ (t < 9) THEN "conf_furanose_3T2"
    ELSE IF (t > 9) /\ (t < 27) THEN "conf_furanose_3EV"
    ELSE IF (t > 27) /\ (t < 45) THEN "conf_furanose_3T4"
    ELSE IF (t > 45) /\ (t < 63) THEN "conf_furanose_4EV"
    ELSE IF (t > 63) /\ (t < 81) THEN "conf_furanose_OT4"
    ELSE IF (t > 81) /\ (t < 99) THEN "conf_furanose_OEV"
    ELSE IF (t > 99) /\ (t < 117) THEN "conf_furanose_OT1"
    ELSE IF (t > 117) /\ (t < 135) THEN "conf_furanose_EV1"
    ELSE IF (t > 135) /\ (t < 153) THEN "conf_furanose_2T1"
    ELSE IF (t > 153) /\ (t < 171) THEN "conf_furanose_2EV"
    ELSE IF (t > 171) /\ (t < 189) THEN "conf_furanose_2T3"
    ELSE IF (t > 189) /\ (t < 207) THEN "conf_furanose_EV3"
    ELSE IF (t > 207) /\ (t < 225) THEN "conf_furanose_4T3"
    ELSE IF (t > 225) /\ (t < 243) THEN "conf_furanose_4EV"
    ELSE IF (t > 243) /\ (t < 261) THEN "conf_furanose_4TO"
    ELSE IF (t > 261) /\ (t < 279) THEN "conf_furanose_EVO"
    ELSE IF (t > 279) /\ (t < 297) THEN "conf_furanose_1TO"
    ELSE IF (t > 297) /\ (t < 315) THEN "conf_furanose_1EV"
    ELSE IF (t > 315) /\ (t < 333) THEN "conf_furanose_1T2"
    ELSE IF (t > 333) /\ (t < 351) THEN "conf_furanose_2EV"
    ELSE confCodeInit

\* a call of conformationPyranose on some phi in [0,360), theta in [0,180]
ClassifyPyranose ==
    /\ conf_pc = "idle"
    /\ \E p \in 0..MaxPhi, t \in 0..MaxTheta :
          /\ phi' = p
          /\ theta' = t
          /\ confCode' = conformationPyranose(p, t)
    /\ conf_pc' = "pyranose"
    /\ UNCHANGED <<bondVars, sugarVars, harnessVars>>

\* a call of conformationFuranose on some angle in [0,360)
ClassifyFuranose ==
    /\ conf_pc = "idle"
    /\ \E t \in 0..MaxPhi :
          /\ theta' = t
          /\ confCode' = conformationFuranose(t)
    /\ phi' = phi
    /\ conf_pc' = "furanose"
    /\ UNCHANGED <<bondVars, sugarVars, harnessVars>>

(***************************************************************************)
(* MSugar constructor                                                      *)
(***************************************************************************)
\* value of a member that has not been assigned yet (bool, int and double
\* members of MSugar have no initialiser, so reading one is indeterminate)
Indeterminate == "indeterminate"

\* the denomination written when a sugar is rejected
Unsupported == "    unsupported    "

\* handedness and anomer columns of the reference database
DbHandedness == {"D", "L", "N"}

DbAnomer == {"A", "B", "N"}

\* ring_atoms templates of database entries (atom names, oxygen first)
RingTemplates ==
    { <<"O5", "C1", "C2", "C3", "C4", "C5">>,
      <<"O6", "C2", "C3", "C4", "C5", "C6">>,
      <<"O4", "C1", "C2", "C3", "C4">>,
      <<"O5", "C2", "C3", "C4", "C5">> }

\* rings the graph search can hand back: any number of atoms
RingMemberResults ==
    RingTemplates \cup
    { <<"O2", "C1", "C2">>,
      <<"O3", "C1", "C2", "C3">>,
      <<"O4", "C2", "C3", "C4">>,
      <<"O6", "C1", "C2", "C3", "C4", "C5", "C6">> }

\* Cremer-Pople angles tried in the constructor (half degrees)
SamplePhi == {0, 100, 700}

SampleTheta == {20, 100, 200, 340}

\* ring bond RMSDs tried (thousandths of an Angstrom)
BondRmsdSamples == {30, 34, 35, 39, 40, 60}

\* ring angle RMSDs tried (half degrees)
AngleRmsdSamples == {6, 7, 8, 9, 14, 15}

\* name().trim().find("C1") != std::string::npos, over the names used here
containsC1(name) == name \in {"C1"}

\* handedness compared for equality with the reference
chiralityMatchesStrict(handedness, reference) ==
    handedness = reference

\* lines 207-208
chiralityMatches(handedness, reference) ==
    \/ (handedness # "D") /\ (reference # "D")
    \/ (handedness # "L") /\ (reference # "L")

\* alpha paired with "B" and beta with "A"
anomerMatchesInverted(anomer, reference) ==
    \/ (anomer = "alpha") /\ (reference = "B")
    \/ (anomer = "beta") /\ (reference = "A")

\* lines 213-214
anomerMatches(anomer, reference) ==
    \/ (anomer = "alpha") /\ (reference # "B")
    \/ (anomer = "beta") /\ (reference # "A")

\* thresholds that let the limit itself pass
bondsRmsdPassesInclusive(size, rmsd) ==
    IF size = 5 THEN rmsd <= 40 ELSE rmsd <= 35

\* lines 218-229
bondsRmsdPasses(size, rmsd) ==
    IF size = 5 THEN rmsd < 40 ELSE rmsd < 35

\* lines 231-242
anglesRmsdPasses(size, rmsd) ==
    IF size = 5 THEN (rmsd > 8) /\ (rmsd < 15) ELSE rmsd < 8

\* the condition with the ring-closure flag left out
allDiagnosticsPassNoRing(angles, bonds, anomer, chirality, ring) ==
    angles /\ bonds /\ anomer /\ chirality

\* line 244: the condition under which sugar_sane is set
allDiagnosticsPass(angles, bonds, anomer, chirality, ring) ==
    angles /\ bonds /\ anomer /\ chirality /\ ring

\* lines 92-105 and lookup_database
LookupDatabase ==
    /\ pc = "start"
    /\ sugar_supported' = TRUE
    /\ \E found \in BOOLEAN :
          /\ sugar_found_db' = found
          /\ IF found
                THEN /\ db_handedness' \in DbHandedness
                     /\ db_anomer' \in DbAnomer
                     /\ pc' = "template"
                ELSE /\ UNCHANGED <<db_handedness, db_anomer>>
                     /\ pc' = "ringMembers"
    /\ ran' = ran \cup {"lookup_database"}
    /\ UNCHANGED <<sugar_sane, sugar_denomination, sugar_anomer, sugar_handedness,
                   sugar_ring_elements, sugar_conformation, sugar_ring_bond_rmsd,
                   sugar_ring_angle_rmsd, sugar_diag_ring, sugar_diag_chirality,
                   sugar_diag_anomer, sugar_diag_bonds_rmsd, sugar_diag_angles_rmsd>>
    /\ UNCHANGED <<bondVars, confVars, harnessVars>>

\* lines 107-151: ring atoms fetched by name from the database template
TemplateRing ==
    /\ pc = "template"
    /\ \E ring \in RingTemplates, missing \in BOOLEAN :
          IF missing
             THEN /\ sugar_supported' = FALSE
                  /\ sugar_sane' = FALSE
                  /\ sugar_denomination' = Unsupported
                  /\ sugar_anomer' = "X"
                  /\ sugar_handedness' = "X"
                  /\ pc' = "returned"
                  /\ UNCHANGED sugar_ring_elements
             ELSE /\ sugar_ring_elements' = ring
                  /\ pc' = "pucker"
                  /\ UNCHANGED <<sugar_supported, sugar_sane, sugar_denomination,
                                 sugar_anomer, sugar_handedness>>
    /\ ran' = ran \cup {"template"}
    /\ UNCHANGED <<sugar_found_db, db_handedness, db_anomer, sugar_conformation,
                   sugar_ring_bond_rmsd, sugar_ring_angle_rmsd, sugar_diag_ring,
                   sugar_diag_chirality, sugar_diag_anomer, sugar_diag_bonds_rmsd,
                   sugar_diag_angles_rmsd>>
    /\ UNCHANGED <<bondVars, confVars, harnessVars>>

\* line 154: ring atoms found by the graph search
RingMembers ==
    /\ pc = "ringMembers"
    /\ sugar_ring_elements' \in RingMemberResults
    /\ pc' = "pucker"
    /\ ran' = ran \cup {"ringMembers"}
    /\ UNCHANGED <<sugar_found_db, db_handedness, db_anomer, sugar_supported,
                   sugar_sane, sugar_denomination, sugar_anomer, sugar_handedness,
                   sugar_conformation, sugar_ring_bond_rmsd, sugar_ring_angle_rmsd,
                   sugar_diag_ring, sugar_diag_chirality, sugar_diag_anomer,
                   sugar_diag_bonds_rmsd, sugar_diag_angles_rmsd>>
    /\ UNCHANGED <<bondVars, confVars, harnessVars>>

\* lines 161-183: pucker analysis by ring size, or rejection of the ring
Pucker ==
    /\ pc = "pucker"
    /\ IF Len(sugar_ring_elements) = 5
          THEN /\ sugar_anomer' \in {"alpha", "beta"}
               /\ sugar_handedness' \in {"D", "L", "N"}
               /\ \E p \in SamplePhi :
                     sugar_conformation' = conformationFuranose(p)
               /\ ran' = ran \cup {"cremerPople_furanose"}
               /\ UNCHANGED <<sugar_supported, sugar_sane, sugar_denomination>>
          ELSE IF Len(sugar_ring_elements) = 6
          THEN /\ sugar_anomer' \in {"alpha", "beta"}
               /\ sugar_handedness' \in {"D", "L", "N"}
               /\ \E p \in SamplePhi, t \in SampleTheta :
                     sugar_conformation' = conformationPyranose(p, t)
               /\ ran' = ran \cup {"cremerPople_pyranose"}
               /\ UNCHANGED <<sugar_supported, sugar_sane, sugar_denomination>>
          ELSE /\ sugar_supported' = FALSE
               /\ sugar_sane' = FALSE
               /\ sugar_denomination' = Unsupported
               /\ sugar_anomer' = "X"
               /\ sugar_handedness' = "X"
               /\ ran' = ran \cup {"rejected"}
               /\ UNCHANGED sugar_conformation
    /\ pc' = "denomination"
    /\ UNCHANGED <<sugar_found_db, db_handedness, db_anomer, sugar_ring_elements,
                   sugar_ring_bond_rmsd, sugar_ring_angle_rmsd, sugar_diag_ring,
                   sugar_diag_chirality, sugar_diag_anomer, sugar_diag_bonds_rmsd,
                   sugar_diag_angles_rmsd>>
    /\ UNCHANGED <<bondVars, confVars, harnessVars>>

\* lines 185-191
Denomination ==
    /\ pc = "denomination"
    /\ LET aldoketo == IF containsC1(sugar_ring_elements[2]) THEN "aldo" ELSE "keto"
           shape    == IF Len(sugar_ring_elements) = 5 THEN "furanose" ELSE "pyranose"
       IN  sugar_denomination' =
              sugar_anomer \o "-" \o sugar_handedness \o "-" \o aldoketo \o shape
    /\ pc' = "examine_ring"
    /\ ran' = ran \cup {"denomination"}
    /\ UNCHANGED <<sugar_found_db, db_handedness, db_anomer, sugar_supported,
                   sugar_sane, sugar_anomer, sugar_handedness, sugar_ring_elements,
                   sugar_conformation, sugar_ring_bond_rmsd, sugar_ring_angle_rmsd,
                   sugar_diag_ring, sugar_diag_chirality, sugar_diag_anomer,
                   sugar_diag_bonds_rmsd, sugar_diag_angles_rmsd>>
    /\ UNCHANGED <<bondVars, confVars, harnessVars>>

\* lines 195-202: sugar_sane reset, then examine_ring() measures the ring,
\* stores both RMSDs and returns whether the ring closes
ExamineRing ==
    /\ pc = "examine_ring"
    /\ sugar_sane' = FALSE
    /\ sugar_ring_bond_rmsd' \in BondRmsdSamples
    /\ sugar_ring_angle_rmsd' \in AngleRmsdSamples
    /\ sugar_diag_ring' \in BOOLEAN
    /\ pc' = "diagnostics"
    /\ ran' = ran \cup {"examine_ring"}
    /\ UNCHANGED <<sugar_found_db, db_handedness, db_anomer, sugar_supported,
                   sugar_denomination, sugar_anomer, sugar_handedness,
                   sugar_ring_elements, sugar_conformation, sugar_diag_chirality,
                   sugar_diag_anomer, sugar_diag_bonds_rmsd, sugar_diag_angles_rmsd>>
    /\ UNCHANGED <<bondVars, confVars, harnessVars>>

\* lines 204-252, with the outcome of the test "if (this->sugar_found_db)"
DiagnosticsBody(found) ==
    /\ pc = "diagnostics"
    /\ IF found
          THEN LET size      == Len(sugar_ring_elements)
                   chirality == chiralityMatches(sugar_handedness, db_handedness)
                   anomer    == anomerMatches(sugar_anomer, db_anomer)
                   bonds     == bondsRmsdPasses(size, sugar_ring_bond_rmsd)
                   angles    == anglesRmsdPasses(size, sugar_ring_angle_rmsd)
               IN  /\ sugar_diag_chirality' = chirality
                   /\ sugar_diag_anomer' = anomer
                   /\ sugar_diag_bonds_rmsd' = bonds
                   /\ sugar_diag_angles_rmsd' = angles
                   /\ sugar_sane' =
                         IF allDiagnosticsPass(angles, bonds, anomer, chirality,
                                               sugar_diag_ring)
                            THEN TRUE ELSE sugar_sane
                   /\ ran' = ran \cup {"sanity_flags"}
          ELSE /\ sugar_diag_anomer' = FALSE
               /\ sugar_diag_chirality' = FALSE
               /\ sugar_diag_bonds_rmsd' = FALSE
               /\ sugar_diag_angles_rmsd' = FALSE
               /\ ran' = ran \cup {"flags_cleared"}
               /\ UNCHANGED sugar_sane
    /\ pc' = "done"
    /\ UNCHANGED <<sugar_found_db, db_handedness, db_anomer, sugar_supported,
                   sugar_denomination, sugar_anomer, sugar_handedness,
                   sugar_ring_elements, sugar_conformation, sugar_ring_bond_rmsd,
                   sugar_ring_angle_rmsd, sugar_diag_ring>>
    /\ UNCHANGED <<bondVars, confVars, harnessVars>>

\* the flags computed without asking whether the sugar was found
DiagnosticsUnguarded == DiagnosticsBody(TRUE)

\* lines 204-252
Diagnostics == DiagnosticsBody(sugar_found_db)

(***************************************************************************)
(* The ring finder: ringMembers, findPath, findBonded                      *)
(*                                                                         *)
(* An atom is a record [el, num, alt]: its element, the number in its name *)
(* and its alternate-conformation code (" " when it has none).  Its name   *)
(* is the element followed by the number ("C1", "O5").  A monomer is the   *)
(* list of its atoms in file order and the set of pairs of names that lie  *)
(* at bonding distance.                                                    *)
(***************************************************************************)
atomOf(el, num) == [el |-> el, num |-> num, alt |-> " "]

\* clipper::MAtom(), the value vector::resize pads with
NullAtom == [el |-> "", num |-> 0, alt |-> " "]

\* MAtom::name()
name(a) == <<a.el, a.num>>

\* MSugar::get_altconf
get_altconf(a) == a.alt

\* Coord_orth::length between two atoms of the monomer
bond_length(mm, a, b) ==
    IF name(a) = name(b) THEN 0
    ELSE IF {name(a), name(b)} \in mm.bonds THEN 145
    ELSE 250

\* MSugar::lookup_visited
lookup_visited(va, first, second) ==
    \E i \in 1..Len(va) :
        \/ (name(first) = name(va[i][1])) /\ (name(second) = name(va[i][2]))
        \/ (name(first) = name(va[i][2])) /\ (name(second) = name(va[i][1]))

\* MSugar::findBonded
findBonded(mm, ma, background) ==
    LET reachable(x) ==
            /\ (bond_length(mm, x, ma) > 50) /\ (bond_length(mm, x, ma) < 161)
            /\ ~lookup_visited(background, ma, x)
            /\ get_altconf(ma) = get_altconf(x)
    IN  SelectSeq(mm.atoms, reachable)

\* an atom taken to close a ring when it occurs at either end of an arc
closes_ringEitherEnd(ma, background) ==
    \E i \in 1..Len(background) :
        \/ name(background[i][1]) = name(ma)
        \/ name(background[i][2]) = name(ma)

\* MSugar::closes_ring
closes_ring(ma, background) ==
    \E i \in 1..Len(background) : name(background[i][1]) = name(ma)

\* MMonomer::lookup(name, MM::ANY): index of the first atom with that name
lookup(mm, nm) ==
    CHOOSE i \in 1..Len(mm.atoms) :
        /\ name(mm.atoms[i]) = nm
        /\ \A j \in 1..(i - 1) : name(mm.atoms[j]) # nm

RECURSIVE findPath(_, _, _)
RECURSIVE findPathLoop(_, _, _, _, _, _)

\* the for loop of findPath over available_paths, from index i on
findPathLoop(mm, current_atom, available_paths, i, result, background) ==
    IF i > Len(available_paths)
    THEN [result |-> IF result # <<>> THEN Append(result, mm.atoms[current_atom])
                     ELSE result,
          background |-> background]
    ELSE LET pushed == Append(background,
                              <<mm.atoms[current_atom], available_paths[i]>>)
         IN  IF closes_ring(available_paths[i], pushed) /\ (result = <<>>)
             THEN [result |-> <<available_paths[i], mm.atoms[current_atom]>>,
                   background |-> pushed]
             ELSE IF result # <<>>
             THEN [result |-> Append(result, mm.atoms[current_atom]),
                   background |-> pushed]
             ELSE LET tmpResult ==
                          findPath(mm, lookup(mm, name(available_paths[i])), pushed)
                  IN  findPathLoop(mm, current_atom, available_paths, i + 1,
                                   result \o tmpResult.result,
                                   tmpResult.background)

\* MSugar::findPath; the value carries the path and the arcs visited so far
findPath(mm, current_atom, background) ==
    LET available_paths == findBonded(mm, mm.atoms[current_atom], background)
    IN  IF Len(available_paths) = 0
        THEN [result |-> <<>>, background |-> background]
        ELSE findPathLoop(mm, current_atom, available_paths, 1, <<>>, background)

RECURSIVE trimIndex(_, _)
\* the while loop of lines 896-897: the position at which buffer[0] recurs
trimIndex(buffer, index) ==
    IF (index < Len(buffer)) /\ (name(buffer[1]) # name(buffer[index + 1]))
    THEN trimIndex(buffer, index + 1)
    ELSE index

\* lines 895-900: erase the first atom, keep the next index atoms
trimPath(buffer) ==
    LET index  == IF Len(buffer) > 2 THEN trimIndex(buffer, 1) ELSE 1
        erased == Tail(buffer)
    IN  [i \in 1..index |-> IF i <= Len(erased) THEN erased[i] ELSE NullAtom]

\* name().trim().split("C")[0] read as an int: the number of a carbon's
\* name; any other name has no leading digits and reads as 0
carbonRank(a) == IF a.el = "C" THEN a.num ELSE 0

RECURSIVE scanRanks(_, _, _, _)
\* the while loop of lines 933-945
scanRanks(result, origin, subindex, destination) ==
    IF (origin > destination) /\ (subindex < Len(result))
    THEN scanRanks(result, origin, subindex + 1,
                   IF subindex + 1 < Len(result)
                   THEN carbonRank(result[subindex + 2])
                   ELSE destination)
    ELSE subindex

\* every carbon inserted right behind position 0
insertionIndexFirst(result, origin) == 1

\* lines 919-945: the position at which a carbon is inserted
insertionIndex(result, origin) ==
    scanRanks(result, origin, 1, carbonRank(result[2]))

RECURSIVE insertCarbons(_, _, _)
\* the second for loop of ringMembers, from buffer index i on
insertCarbons(buffer, i, result) ==
    IF i > Len(buffer) THEN result
    ELSE IF buffer[i].el = "C"
    THEN IF Len(result) > 1
         THEN LET subindex == insertionIndex(result, carbonRank(buffer[i]))
              IN  insertCarbons(buffer, i + 1,
                                SubSeq(result, 1, subindex) \o <<buffer[i]>>
                                    \o SubSeq(result, subindex + 1, Len(result)))
         ELSE insertCarbons(buffer, i + 1, Append(result, buffer[i]))
    ELSE insertCarbons(buffer, i + 1, result)

\* lines 909-961: oxygens first, then the carbons by the number in their name
canonicalReorder(buffer) ==
    LET isOxygen(x) == x.el = "O"
    IN  insertCarbons(buffer, 1, SelectSeq(buffer, isOxygen))

\* ---- the monomers searched ----
Rotate(s, r) == [i \in 1..Len(s) |-> s[((i - 1 + r) % Len(s)) + 1]]

Reverse(s) == [i \in 1..Len(s) |-> s[Len(s) + 1 - i]]

\* the bonds of a closed chain of atoms
cycleBonds(s) == {{name(s[i]), name(s[(i % Len(s)) + 1])} : i \in 1..Len(s)}

\* the bonds of an open chain of atoms
chainBonds(s) == {{name(s[i]), name(s[i + 1])} : i \in 1..(Len(s) - 1)}

\* ring skeletons: aldopyranose, aldofuranose, ketopyranose (sialic acid
\* numbering), 5-thio sugar, iminosugar, carbasugar; each with the
\* exocyclic chains hanging from it
RingSkeletons ==
    { [cycle  |-> <<atomOf("O", 5), atomOf("C", 1), atomOf("C", 2),
                    atomOf("C", 3), atomOf("C", 4), atomOf("C", 5)>>,
       chains |-> {<<atomOf("C", 1), atomOf("O", 1)>>,
                   <<atomOf("C", 5), atomOf("C", 6), atomOf("O", 6)>>}],
      [cycle  |-> <<atomOf("O", 4), atomOf("C", 1), atomOf("C", 2),
                    atomOf("C", 3), atomOf("C", 4)>>,
       chains |-> {<<atomOf("C", 1), atomOf("O", 1)>>,
                   <<atomOf("C", 4), atomOf("C", 5), atomOf("O", 5)>>}],
      [cycle  |-> <<atomOf("O", 6), atomOf("C", 2), atomOf("C", 3),
                    atomOf("C", 4), atomOf("C", 5), atomOf("C", 6)>>,
       chains |-> {<<atomOf("C", 2), atomOf("C", 1), atomOf("O", 1)>>,
                   <<atomOf("C", 6), atomOf("C", 7), atomOf("O", 7)>>}],
      [cycle  |-> <<atomOf("S", 5), atomOf("C", 1), atomOf("C", 2),
                    atomOf("C", 3), atomOf("C", 4), atomOf("C", 5)>>,
       chains |-> {<<atomOf("C", 1), atomOf("O", 1)>>,
                   <<atomOf("C", 5), atomOf("C", 6), atomOf("O", 6)>>}],
      [cycle  |-> <<atomOf("N", 5), atomOf("C", 1), atomOf("C", 2),
                    atomOf("C", 3), atomOf("C", 4), atomOf("C", 5)>>,
       chains |-> {<<atomOf("C", 5), atomOf("C", 6), atomOf("O", 6)>>}],
      [cycle  |-> <<atomOf("C", 1), atomOf("C", 2), atomOf("C", 3),
                    atomOf("C", 4), atomOf("C", 5), atomOf("C", 6)>>,
       chains |-> {<<atomOf("C", 1), atomOf("O", 1)>>,
                   <<atomOf("C", 4), atomOf("O", 4)>>}] }

RECURSIVE chainAtoms(_)
\* the atoms of a set of chains past their ring atom, chain after chain
chainAtoms(chains) ==
    IF chains = {} THEN <<>>
    ELSE LET c == CHOOSE x \in chains : TRUE
         IN  Tail(c) \o chainAtoms(chains \ {c})

\* the ring atoms listed from any of them on, in either direction
ringOrders(cycle) ==
    {Rotate(cycle, r) : r \in 0..(Len(cycle) - 1)}
        \cup {Reverse(Rotate(cycle, r)) : r \in 0..(Len(cycle) - 1)}

\* a skeleton written out as a monomer: the ring atoms in one of their
\* orders, with the exocyclic atoms, if any, after or before them
monomersOf(k) ==
    { [atoms |-> IF exoFirst THEN chainAtoms(chains) \o ring
                 ELSE ring \o chainAtoms(chains),
       bonds |-> cycleBonds(k.cycle) \cup UNION {chainBonds(c) : c \in chains}] :
        ring \in ringOrders(k.cycle), chains \in {{}, k.chains},
        exoFirst \in BOOLEAN }

Monomers == UNION {monomersOf(k) : k \in RingSkeletons}

EmptyMonomer == [atoms |-> <<>>, bonds |-> {}]

\* std::vector<MAtom> MSugar::ringMembers() on one monomer
RingMembersCall ==
    /\ ring_pc = "idle"
    /\ \E mm \in Monomers :
          LET buffer == findPath(mm, 1, <<>>).result
          IN  /\ ring_mm' = mm
              /\ ring_buffer' = buffer
              /\ ring_cycle' = trimPath(buffer)
              /\ ring_result' = canonicalReorder(trimPath(buffer))
    /\ ring_pc' = "found"
    /\ UNCHANGED ring_again
    /\ UNCHANGED <<bondVars, confVars, sugarVars, puckerVars, stereoVars,
                   repeatVars, twoArgVars, templateVars, searchVars,
                   examineVars>>

\* the reordering step of ringMembers applied to the ring it returned
Recanonicalise ==
    /\ ring_pc = "found"
    /\ ring_again' = canonicalReorder(ring_result)
    /\ ring_pc' = "reordered"
    /\ UNCHANGED <<ring_mm, ring_buffer, ring_cycle, ring_result>>
    /\ UNCHANGED <<bondVars, confVars, sugarVars, puckerVars, stereoVars,
                   repeatVars, twoArgVars, templateVars, searchVars,
                   examineVars>>

(***************************************************************************)
(* Anomer and handedness in cremerPople_pyranose / cremerPople_furanose    *)
(*                                                                         *)
(* Heights are signed integer displacements along the mean-plane normal.   *)
(* A neighbour is a record [atom, dist, occ, z]: the atom, its distance    *)
(* from the ring-closing carbon, its occupancy in percent and its height.  *)
(***************************************************************************)
\* an atom after set_id("XXX"): no element, the name "XXX" (num = -1)
XXX == [el |-> "", num |-> -1, alt |-> " "]

\* MSugar::is_part_of_ring
is_part_of_ring(ma, ring_atoms) ==
    \E i \in 1..Len(ring_atoms) : name(ring_atoms[i]) = name(ma)

\* the flip applied only when the carbon is the ring-closing atom
lurdReversePyranoseClosingOnly(ring_atoms, configurational_carbon) ==
    /\ name(configurational_carbon) # name(XXX)
    /\ name(ring_atoms[6]) = name(configurational_carbon)

\* lines 329-331
lurdReversePyranose(ring_atoms, configurational_carbon) ==
    /\ name(configurational_carbon) # name(XXX)
    /\ \/ name(ring_atoms[6]) = name(configurational_carbon)
       \/ ~is_part_of_ring(configurational_carbon, ring_atoms)

\* lines 582-584
lurdReverseFuranose(ring_atoms, configurational_carbon) ==
    /\ name(configurational_carbon) # name(XXX)
    /\ \/ name(ring_atoms[5]) = name(configurational_carbon)
       \/ ~is_part_of_ring(configurational_carbon, ring_atoms)

\* lines 496-521 and 737-762
anomerLabel(z, lurd_reverse) ==
    IF \/ (z.anomeric_substituent > z.anomeric_carbon)
          /\ (z.configurational_substituent > z.configurational_carbon)
       \/ (z.anomeric_substituent < z.anomeric_carbon)
          /\ (z.configurational_substituent < z.configurational_carbon)
    THEN IF lurd_reverse THEN "beta" ELSE "alpha"
    ELSE IF lurd_reverse THEN "alpha" ELSE "beta"

\* a carbon taken even when a substituent is already held
takeSubstituentAlways(held, candidate) == candidate

\* lines 439-441 and 684-685: a carbon is taken only while nothing is held
takeSubstituent(held, candidate) ==
    IF candidate.atom.el # "C" THEN candidate
    ELSE IF name(held.atom) = name(XXX) THEN candidate
    ELSE held

RECURSIVE substituentScan(_, _, _, _, _, _)
\* the loops of lines 431-445 (sameOccupancy holds the occupancy of the
\* ring-closing carbon) and 670-687 (no occupancy test: sameOccupancy = -1)
substituentScan(neighbourhood, i, closing, ring_atoms, sameOccupancy, held) ==
    IF i > Len(neighbourhood) THEN held
    ELSE LET n == neighbourhood[i]
             passes ==
                 /\ n.atom.el # "H"
                 /\ name(n.atom) # name(closing)
                 /\ n.dist < 180
                 /\ ~is_part_of_ring(n.atom, ring_atoms)
                 /\ (sameOccupancy = -1) \/ (sameOccupancy = n.occ)
         IN  substituentScan(neighbourhood, i + 1, closing, ring_atoms,
                             sameOccupancy,
                             IF passes THEN takeSubstituent(held, n) ELSE held)

\* lines 531-532 and 772-773
handednessLabel(substituent, ring_atoms, z_closing) ==
    IF is_part_of_ring(substituent.atom, ring_atoms)
           \/ (name(substituent.atom) = name(XXX))
    THEN "N"
    ELSE IF (z_closing - substituent.z) < 0 THEN "D" ELSE "L"

\* the substituent before the search
NoSubstituent == [atom |-> XXX, dist |-> 0, occ |-> 0, z |-> 0]

Heights == {-1, 0, 1}

HeightRecords ==
    [anomeric_carbon : Heights, anomeric_substituent : Heights,
     configurational_carbon : Heights, configurational_substituent : Heights,
     closing : Heights]

PyranoseRing == <<atomOf("O", 5), atomOf("C", 1), atomOf("C", 2),
                  atomOf("C", 3), atomOf("C", 4), atomOf("C", 5)>>

FuranoseRing == <<atomOf("O", 4), atomOf("C", 1), atomOf("C", 2),
                  atomOf("C", 3), atomOf("C", 4)>>

\* what get_stereochemistry may hand back as configurational carbon: the
\* sentinel, a ring carbon, or the carbon outside the ring
ConfigurationalCarbons(ring_atoms) ==
    {XXX, ring_atoms[Len(ring_atoms) - 1], ring_atoms[Len(ring_atoms)],
     atomOf("C", ring_atoms[Len(ring_atoms)].num + 1)}

\* atoms the proximity query may return around the ring-closing carbon: an
\* exocyclic carbon, an exocyclic nitrogen, an exocyclic oxygen at half
\* occupancy, the previous ring carbon, a hydrogen, the carbon itself and
\* an oxygen two bonds away
NeighbourPool(ring_atoms) ==
    LET closing == ring_atoms[Len(ring_atoms)]
    IN  { [atom |-> atomOf("C", closing.num + 1), dist |-> 152, occ |-> 100, z |-> 1],
          [atom |-> atomOf("N", closing.num), dist |-> 147, occ |-> 100, z |-> -1],
          [atom |-> atomOf("O", closing.num + 1), dist |-> 143, occ |-> 50, z |-> 0],
          [atom |-> ring_atoms[Len(ring_atoms) - 1], dist |-> 152, occ |-> 100, z |-> 0],
          [atom |-> atomOf("H", closing.num), dist |-> 109, occ |-> 100, z |-> 1],
          [atom |-> closing, dist |-> 0, occ |-> 100, z |-> 0],
          [atom |-> atomOf("O", closing.num - 1), dist |-> 240, occ |-> 100, z |-> -1] }

\* the lists of up to three different atoms of the pool, in every order
Neighbourhoods(ring_atoms) ==
    UNION { {s \in [1..n -> NeighbourPool(ring_atoms)] :
                \A i \in 1..n : \A j \in 1..n : (i # j) => (s[i] # s[j])} :
            n \in 0..3 }

\* the anomer and handedness decisions of cremerPople_pyranose
CremerPoplePyranose ==
    /\ pk_pc = "idle"
    /\ \E cc \in ConfigurationalCarbons(PyranoseRing) :
       \E z \in HeightRecords :
       \E neighbourhood \in Neighbourhoods(PyranoseRing) :
          LET lurd_reverse == lurdReversePyranose(PyranoseRing, cc)
              nz6_substituent ==
                  substituentScan(neighbourhood, 1, PyranoseRing[6],
                                  PyranoseRing, 100, NoSubstituent)
          IN  /\ pk_ring' = PyranoseRing
              /\ pk_cc' = cc
              /\ pk_z' = z
              /\ pk_neighbourhood' = neighbourhood
              /\ pk_lurd' = lurd_reverse
              /\ pk_anomer' = anomerLabel(z, lurd_reverse)
              /\ pk_substituent' = nz6_substituent
              /\ pk_handedness' =
                     handednessLabel(nz6_substituent, PyranoseRing, z.closing)
    /\ pk_pc' = "pyranose"
    /\ UNCHANGED <<bondVars, confVars, sugarVars, ringVars, stereoVars,
                   repeatVars, twoArgVars, templateVars, searchVars,
                   examineVars>>

\* the anomer and handedness decisions of cremerPople_furanose
CremerPopleFuranose ==
    /\ pk_pc = "idle"
    /\ \E cc \in ConfigurationalCarbons(FuranoseRing) :
       \E z \in HeightRecords :
       \E neighbourhood \in Neighbourhoods(FuranoseRing) :
          LET lurd_reverse == lurdReverseFuranose(FuranoseRing, cc)
              nz5_substituent ==
                  substituentScan(neighbourhood, 1, FuranoseRing[5],
                                  FuranoseRing, -1, NoSubstituent)
          IN  /\ pk_ring' = FuranoseRing
              /\ pk_cc' = cc
              /\ pk_z' = z
              /\ pk_neighbourhood' = neighbourhood
              /\ pk_lurd' = lurd_reverse
              /\ pk_anomer' = anomerLabel(z, lurd_reverse)
              /\ pk_substituent' = nz5_substituent
              /\ pk_handedness' =
                     handednessLabel(nz5_substituent, FuranoseRing, z.closing)
    /\ pk_pc' = "furanose"
    /\ UNCHANGED <<bondVars, confVars, sugarVars, ringVars, stereoVars,
                   repeatVars, twoArgVars, templateVars, searchVars,
                   examineVars>>

(***************************************************************************)
(* get_stereochemistry and is_stereocentre                                 *)
(*                                                                         *)
(* A structure is a record [atoms, ring, bonds, reach, coarse]: the atoms  *)
(* in file order, ring_members(), the pairs of atoms at bonding distance,  *)
(* the distance of every atom from the ring-closing atom, and whether the  *)
(* proximity index returns the whole grid cell or only the atoms inside    *)
(* the query radius.                                                       *)
(***************************************************************************)
atomAlt(el, num, alt) == [el |-> el, num |-> num, alt |-> alt]

\* MAtom::id(): the name, followed by the alternate-conformation code if any
id(a) == IF a.alt = " " THEN name(a) ELSE <<a.el, a.num, a.alt>>

\* Coord_orth::length between two atoms of a structure
separation(st, a, b) ==
    IF a = b THEN 0
    ELSE IF a = st.ring[Len(st.ring)] THEN st.reach[b]
    ELSE IF b = st.ring[Len(st.ring)] THEN st.reach[a]
    ELSE IF {a, b} \in st.bonds
    THEN (IF "H" \in {a.el, b.el} THEN 109
          ELSE IF (a.el = "C") /\ (b.el = "C") THEN 152
          ELSE 143)
    ELSE 250

\* MAtomNonBond::atoms_near: at least the atoms within rad of the centre
atoms_near(st, centre, rad) ==
    LET near(x) == st.coarse \/ (separation(st, x, centre) <= rad)
    IN  SelectSeq(st.atoms, near)

RECURSIVE substituentList(_, _, _, _, _)
\* the loop of is_stereocentre, from neighbourhood index k on
substituentList(st, ma, neighbourhood, k, substituent_list) ==
    IF k > Len(neighbourhood) THEN substituent_list
    ELSE LET n == neighbourhood[k]
             counted ==
                 /\ separation(st, n, ma) < 180
                 /\ n.el # "H"
                 /\ name(n) # name(ma)
                 /\ get_altconf(n) = get_altconf(ma)
             found ==
                 \E subs_no \in 1..Len(substituent_list) :
                     /\ substituent_list[subs_no].el # "C"
                     /\ substituent_list[subs_no].el = n.el
         IN  substituentList(st, ma, neighbourhood, k + 1,
                 IF counted /\ (~found \/ (name(n) = name(st.ring[1])))
                 THEN Append(substituent_list, n)
                 ELSE substituent_list)

\* MSugar::is_stereocentre
is_stereocentre(st, ma) ==
    IF ma.el # "C" THEN FALSE
    ELSE Len(substituentList(st, ma, atoms_near(st, ma, 120), 1, <<>>)) > 2

\* lines 1132-1134 and 1139-1141
takeAtom(held, candidate) ==
    IF candidate.el # "C" THEN candidate
    ELSE IF name(held) = name(XXX) THEN candidate
    ELSE held

RECURSIVE anomericScan(_, _, _, _)
\* the loop of lines 1112-1146
anomericScan(st, neighbourhood, i, anomeric_substituent) ==
    IF i > Len(neighbourhood) THEN anomeric_substituent
    ELSE LET n == neighbourhood[i]
             anomeric_carbon == st.ring[2]
         IN  anomericScan(st, neighbourhood, i + 1,
                 IF /\ n.el # "H"
                    /\ name(n) # name(anomeric_carbon)
                    /\ bondedSymmetry(n.el, anomeric_carbon.el,
                                      separation(st, n, anomeric_carbon))
                    /\ ~is_part_of_ring(n, st.ring)
                 THEN IF get_altconf(n) = get_altconf(anomeric_carbon)
                      THEN takeAtom(anomeric_substituent, n)
                      ELSE takeAtom(anomeric_substituent, n)
                 ELSE anomeric_substituent)

RECURSIVE scanSubstituent(_, _, _, _, _, _)
\* the loop of lines 1166-1181 for the ring carbon at position i
scanSubstituent(st, i, anomeric_carbon, neighbourhood, i2, held) ==
    IF i2 > Len(neighbourhood) THEN held
    ELSE LET n == neighbourhood[i2]
         IN  scanSubstituent(st, i, anomeric_carbon, neighbourhood, i2 + 1,
                 IF /\ ~is_part_of_ring(n, st.ring)
                    /\ n.el # "H"
                    /\ get_altconf(n) = get_altconf(anomeric_carbon)
                    /\ separation(st, n, st.ring[i]) < 180
                    /\ name(n) # name(st.ring[i - 1])
                    /\ name(n) # name(st.ring[1])
                    /\ name(n) # name(st.ring[i])
                 THEN n
                 ELSE held)

\* the first stereocentre found is kept
keepFirstStereocentre(held, candidate) ==
    IF name(held) = name(XXX) THEN candidate ELSE held

\* line 1161
nextStereocentre(held, candidate) == candidate

RECURSIVE ringScan(_, _, _, _, _)
\* the loop of lines 1157-1182, from ring position i on
ringScan(st, i, anomeric_carbon, carbon, substituent) ==
    IF i > Len(st.ring) THEN [carbon |-> carbon, substituent |-> substituent]
    ELSE IF (st.ring[i].el = "C") /\ is_stereocentre(st, st.ring[i])
    THEN ringScan(st, i + 1, anomeric_carbon,
                  nextStereocentre(carbon, st.ring[i]),
                  scanSubstituent(st, i, anomeric_carbon,
                                  atoms_near(st, st.ring[i], 120), 1, substituent))
    ELSE ringScan(st, i + 1, anomeric_carbon, carbon, substituent)

RECURSIVE walkNeighbours(_, _, _, _, _, _)
\* the loop of lines 1198-1223 around the carbon the walk stands on
walkNeighbours(st, carbon, neighbourhood, i2, next, substituent) ==
    IF i2 > Len(neighbourhood) THEN [next |-> next, substituent |-> substituent]
    ELSE LET n == neighbourhood[i2]
             closing == st.ring[Len(st.ring)]
             linked ==
                 /\ ~is_part_of_ring(n, st.ring)
                 /\ n.el # "H"
                 /\ get_altconf(n) = get_altconf(carbon)
                 /\ separation(st, n, carbon) < 180
         IN  IF linked /\ (n.el = "C")
             THEN walkNeighbours(st, carbon, neighbourhood, i2 + 1,
                      IF separation(st, n, closing) > separation(st, carbon, closing)
                      THEN n ELSE next,
                      substituent)
             ELSE IF linked
             THEN walkNeighbours(st, carbon, neighbourhood, i2 + 1, next, n)
             ELSE walkNeighbours(st, carbon, neighbourhood, i2 + 1, next, substituent)

\* the test of the while loop at line 1193
walkContinues(st, next, carbon) ==
    is_stereocentre(st, next) /\ (id(next) # name(carbon))

\* ---- the structures examined ----
\* an aldopyranose ring whose atoms carry the alternate-conformation code c
ringOf(c) ==
    <<atomAlt("O", 5, c), atomAlt("C", 1, c), atomAlt("C", 2, c),
      atomAlt("C", 3, c), atomAlt("C", 4, c), atomAlt("C", 5, c)>>

\* a part is an atom outside the ring: [atom, on, reach] with the atom it
\* is bonded to and its distance from the ring-closing carbon
partOf(a, on, reach) == [atom |-> a, on |-> on, reach |-> reach]

\* what hangs from the anomeric carbon: nothing; H1 and O1; O1 in another
\* conformation only; O1 in both conformations, in either file order
AnomericParts(c) ==
    LET C1  == atomAlt("C", 1, c)
        O1  == partOf(atomAlt("O", 1, c), C1, 240)
        O1B == partOf(atomAlt("O", 1, "B"), C1, 245)
        H1  == partOf(atomAlt("H", 1, c), C1, 215)
    IN  { <<>>, <<H1, O1>>, <<O1B>>, <<O1, O1B>>, <<O1B, O1>> }

\* hydroxyls on C2, C3, C4: any of them may be missing (deoxy sugars)
HydroxylParts(c) ==
    { [i \in 1..Cardinality(present) |->
          LET k == CHOOSE k \in present :
                       Cardinality({j \in present : j < k}) = i - 1
          IN  partOf(atomAlt("O", k, c), atomAlt("C", k, c),
                     IF k = 4 THEN 245 ELSE 370)] :
      present \in SUBSET {2, 3, 4} }

\* the chain on the ring-closing carbon C5: nothing, a methyl group, a
\* hydroxymethyl group, or a chain of two or four carbons with their
\* hydroxyls; the four-carbon chain stretched out or folded back so that
\* its last carbon lies nearer to C5 than the carbon before it
TailParts(c) ==
    LET C(k) == atomAlt("C", k, c)
        O(k) == atomAlt("O", k, c)
    IN  { <<>>,
          <<partOf(C(6), C(5), 152)>>,
          <<partOf(C(6), C(5), 152), partOf(O(6), C(6), 243)>>,
          <<partOf(C(6), C(5), 152), partOf(O(6), C(6), 243),
            partOf(C(7), C(6), 255), partOf(O(7), C(7), 370)>>,
          <<partOf(C(6), C(5), 152), partOf(O(6), C(6), 243),
            partOf(C(7), C(6), 255), partOf(O(7), C(7), 370),
            partOf(C(8), C(7), 390), partOf(O(8), C(8), 480),
            partOf(C(9), C(8), 505), partOf(O(9), C(9), 610)>>,
          <<partOf(C(6), C(5), 152), partOf(O(6), C(6), 243),
            partOf(C(7), C(6), 255), partOf(O(7), C(7), 370),
            partOf(C(8), C(7), 390), partOf(O(8), C(8), 480),
            partOf(C(9), C(8), 375), partOf(O(9), C(9), 470)>> }

\* the distance of a ring atom from the ring-closing carbon
ringReach(ring, i) ==
    IF i = Len(ring) THEN 0
    ELSE IF i = 1 THEN 143
    ELSE IF i = Len(ring) - 1 THEN 152
    ELSE IF i \in {2, Len(ring) - 2} THEN 245
    ELSE 290

\* ring and parts put together
structureOf(ring, parts, coarse) ==
    LET partAtoms == [i \in 1..Len(parts) |-> parts[i].atom]
        all == ring \o partAtoms
    IN  [atoms  |-> all,
         ring   |-> ring,
         bonds  |-> {{ring[i], ring[(i % Len(ring)) + 1]} : i \in 1..Len(ring)}
                        \cup {{parts[i].atom, parts[i].on} : i \in 1..Len(parts)},
         reach  |-> [a \in {all[i] : i \in 1..Len(all)} |->
                        IF \E i \in 1..Len(ring) : ring[i] = a
                        THEN ringReach(ring, CHOOSE i \in 1..Len(ring) : ring[i] = a)
                        ELSE (CHOOSE p \in {parts[i] : i \in 1..Len(parts)} :
                                  p.atom = a).reach],
         coarse |-> coarse]

\* a pyranose of which only O5, C4, C5 and what hangs from them were built
\* in two conformations: the ring holds the A copies next to the single
\* C1, C2 and C3, as the name lookup of lines 117-149 hands them over
SplitStructures ==
    LET C(k, c) == atomAlt("C", k, c)
        O(k, c) == atomAlt("O", k, c)
        ring == <<O(5, "A"), C(1, " "), C(2, " "), C(3, " "), C(4, "A"), C(5, "A")>>
        own  == <<partOf(O(4, "A"), C(4, "A"), 245),
                  partOf(C(6, "A"), C(5, "A"), 152),
                  partOf(O(6, "A"), C(6, "A"), 243),
                  partOf(O(5, "B"), O(5, "A"), 150),
                  partOf(C(4, "B"), C(4, "A"), 160),
                  partOf(C(5, "B"), C(5, "A"), 60),
                  partOf(O(4, "B"), C(4, "B"), 250),
                  partOf(C(6, "B"), C(5, "B"), 160),
                  partOf(O(6, "B"), C(6, "B"), 250)>>
    IN  { structureOf(ring, an \o hy \o own, coarse) :
            an \in {<<>>, <<partOf(O(1, " "), C(1, " "), 240)>>},
            hy \in {<<partOf(O(2, " "), C(2, " "), 370)>>,
                    <<partOf(O(2, " "), C(2, " "), 370),
                      partOf(O(3, " "), C(3, " "), 370)>>},
            coarse \in BOOLEAN }

Structures ==
    { structureOf(ringOf(c), an \o hy \o ta, coarse) :
        <<c, an, hy, ta, coarse>> \in
            UNION { {c} \X AnomericParts(c) \X HydroxylParts(c) \X TailParts(c)
                        \X BOOLEAN : c \in {" ", "A"} } }
        \cup SplitStructures

NoStructure == [atoms |-> <<>>, ring |-> <<>>, bonds |-> {}, reach |-> <<>>,
                coarse |-> FALSE]

\* lines 1086-1155: the anomeric carbon and its substituent
AnomericSearch ==
    /\ gs_pc = "idle"
    /\ \E st \in Structures :
          /\ gs_mol' = st
          /\ IF (st.ring # <<>>) /\ (st.ring[2].el = "C")
             THEN /\ gs_anomeric_carbon' = st.ring[2]
                  /\ gs_anomeric_substituent' =
                         anomericScan(st, atoms_near(st, st.ring[2], 120), 1, XXX)
             ELSE /\ gs_anomeric_carbon' = XXX
                  /\ gs_anomeric_substituent' = XXX
    /\ gs_pc' = "scan"
    /\ UNCHANGED <<gs_configurational_carbon, gs_configurational_substituent,
                   gs_next_carbon, gs_steps>>
    /\ UNCHANGED <<gs_z, gs_lurd, gs_anomer>>
    /\ UNCHANGED <<bondVars, confVars, sugarVars, ringVars, puckerVars,
                   repeatVars, twoArgVars, templateVars, searchVars,
                   examineVars>>

\* lines 1157-1191: the stereocentres of the ring
RingScan ==
    /\ gs_pc = "scan"
    /\ LET found == ringScan(gs_mol, 3, gs_anomeric_carbon, XXX, XXX)
       IN  /\ gs_configurational_carbon' = found.carbon
           /\ gs_configurational_substituent' = found.substituent
           /\ gs_next_carbon' = found.substituent
    /\ gs_pc' = "walk"
    /\ UNCHANGED <<gs_mol, gs_anomeric_carbon, gs_anomeric_substituent, gs_steps>>
    /\ UNCHANGED <<gs_z, gs_lurd, gs_anomer>>
    /\ UNCHANGED <<bondVars, confVars, sugarVars, ringVars, puckerVars,
                   repeatVars, twoArgVars, templateVars, searchVars,
                   examineVars>>

\* lines 1193-1224: one iteration of the outward walk
WalkStep ==
    /\ gs_pc = "walk"
    /\ gs_steps < MaxWalk
    /\ walkContinues(gs_mol, gs_next_carbon, gs_configurational_carbon)
    /\ LET seen == walkNeighbours(gs_mol, gs_next_carbon,
                                  atoms_near(gs_mol, gs_next_carbon, 120), 1,
                                  gs_next_carbon, gs_configurational_substituent)
       IN  /\ gs_configurational_carbon' = gs_next_carbon
           /\ gs_next_carbon' = seen.next
           /\ gs_configurational_substituent' = seen.substituent
    /\ gs_steps' = gs_steps + 1
    /\ UNCHANGED <<gs_pc, gs_mol, gs_anomeric_carbon, gs_anomeric_substituent>>
    /\ UNCHANGED <<gs_z, gs_lurd, gs_anomer>>
    /\ UNCHANGED <<bondVars, confVars, sugarVars, ringVars, puckerVars,
                   repeatVars, twoArgVars, templateVars, searchVars,
                   examineVars>>

\* lines 1226-1233: the loop test fails and the pairs are returned
WalkExit ==
    /\ gs_pc = "walk"
    /\ ~walkContinues(gs_mol, gs_next_carbon, gs_configurational_carbon)
    /\ gs_pc' = "done"
    /\ UNCHANGED <<gs_mol, gs_anomeric_carbon, gs_anomeric_substituent,
                   gs_configurational_carbon, gs_configurational_substituent,
                   gs_next_carbon, gs_steps>>
    /\ UNCHANGED <<gs_z, gs_lurd, gs_anomer>>
    /\ UNCHANGED <<bondVars, confVars, sugarVars, ringVars, puckerVars,
                   repeatVars, twoArgVars, templateVars, searchVars,
                   examineVars>>

\* lines 314-331 and 456-521: cremerPople_pyranose projects the four atoms
\* it was handed and decides the label; an atom that is still the sentinel
\* was default-constructed, so its coordinates, and with them its height,
\* are whatever the memory held
AnomerFromStereo ==
    /\ gs_pc = "done"
    /\ \E z \in [anomeric_carbon : Heights, anomeric_substituent : Heights,
                 configurational_carbon : Heights,
                 configurational_substituent : Heights] :
          LET lurd_reverse ==
                  lurdReversePyranose(gs_mol.ring, gs_configurational_carbon)
          IN  /\ gs_z' = z
              /\ gs_lurd' = lurd_reverse
              /\ gs_anomer' = anomerLabel(z, lurd_reverse)
    /\ gs_pc' = "labelled"
    /\ UNCHANGED <<gs_mol, gs_anomeric_carbon, gs_anomeric_substituent,
                   gs_configurational_carbon, gs_configurational_substituent,
                   gs_next_carbon, gs_steps>>
    /\ UNCHANGED <<bondVars, confVars, sugarVars, ringVars, puckerVars,
                   repeatVars, twoArgVars, templateVars, searchVars,
                   examineVars>>

(***************************************************************************)
(* The pucker analysis run again on the same sugar                         *)
(*                                                                         *)
(* The geometry of a sugar fixes the amplitude, phi, theta, q2, q3 and the *)
(* height of the last ring carbon over its substituent; they are taken as  *)
(* given.  Lengths are in hundredths of an Angstrom.                       *)
(***************************************************************************)
PuckerInputs ==
    [size : {5, 6}, amplitude : {55}, phi : SamplePhi, theta : SampleTheta,
     q2 : {10, 50}, q3 : {-30}, height : {-20, 35}]

\* what the member sugar_conformation may hold before line 164 or 174 has
\* assigned it for the first time
UnassignedConformations == {confCodeInit, "conf_pyranose_4C1", "conf_furanose_3T2"}

\* cpParams as built at lines 489-494, 529 and 731-735, 770
returnedVector(in, conformation) ==
    IF in.size = 6
    THEN <<in.amplitude, in.phi, in.theta, in.q2, in.q3, conformation, in.height>>
    ELSE <<in.amplitude, -1, in.phi, in.q2, -1, in.height>>

\* lines 485-487 and 727-729: push_back on the member vector
storeParameters(stored, in) ==
    stored \o (IF in.size = 6 THEN <<in.amplitude, in.phi, in.theta>>
               ELSE <<in.amplitude, -1, in.phi>>)

\* lines 161-175: the constructor runs the analysis and then assigns the
\* conformation from the stored parameters
FirstPuckerRun ==
    /\ cp_pc = "idle"
    /\ \E in \in PuckerInputs :
       \E unassigned \in UnassignedConformations :
          LET stored == storeParameters(cp_stored, in)
          IN  /\ cp_input' = in
              /\ cp_first' = returnedVector(in, unassigned)
              /\ cp_stored' = stored
              /\ cp_stored_once' = stored
              /\ cp_conformation' =
                     IF in.size = 5 THEN conformationFuranose(stored[3])
                     ELSE conformationPyranose(stored[2], stored[3])
    /\ cp_pc' = "once"
    /\ UNCHANGED cp_second
    /\ UNCHANGED <<bondVars, confVars, sugarVars, ringVars, puckerVars,
                   stereoVars, twoArgVars, templateVars, searchVars,
                   examineVars>>

\* cremerPople_pyranose / cremerPople_furanose called again on the sugar
SecondPuckerRun ==
    /\ cp_pc = "once"
    /\ cp_second' = returnedVector(cp_input, cp_conformation)
    /\ cp_stored' = storeParameters(cp_stored, cp_input)
    /\ cp_pc' = "twice"
    /\ UNCHANGED <<cp_input, cp_conformation, cp_stored_once, cp_first>>
    /\ UNCHANGED <<bondVars, confVars, sugarVars, ringVars, puckerVars,
                   stereoVars, twoArgVars, templateVars, searchVars,
                   examineVars>>

RepeatIdle ==
    /\ cp_pc = "idle"
    /\ cp_input = [size |-> 6, amplitude |-> 0, phi |-> 0, theta |-> 0,
                   q2 |-> 0, q3 |-> 0, height |-> 0]
    /\ cp_conformation = confCodeInit
    /\ cp_stored = <<>>
    /\ cp_stored_once = <<>>
    /\ cp_first = <<>>
    /\ cp_second = <<>>

(***************************************************************************)
(* The two-argument constructor                                            *)
(*                                                                         *)
(* A sugar is the record of the members the constructors write.  The       *)
(* member sugar_parent_molecule_nonbond is the name of the index it points *)
(* to; "wild" is a pointer that was never assigned.                        *)
(***************************************************************************)
NoSugar == [ring |-> 0, supported |-> FALSE, sane |-> FALSE, anomer |-> "",
            handedness |-> "", conformation |-> "", params |-> 0,
            nonbond |-> "wild"]

\* lines 89-260: the sugars MSugar(ml, mm, nb) leaves behind.  Five- and
\* six-membered rings get three pucker parameters, a conformation, an anomer
\* and a handedness; any other ring is marked unsupported.
constructedSugars(nb) ==
    {[ring |-> r, supported |-> TRUE, sane |-> s, anomer |-> a,
      handedness |-> h, conformation |-> IF r = 5 THEN "furanose" ELSE "pyranose",
      params |-> 3, nonbond |-> nb] :
        r \in {5, 6}, s \in BOOLEAN, a \in {"alpha", "beta"},
        h \in {"D", "L", "N"}}
    \cup
    {[ring |-> r, supported |-> FALSE, sane |-> FALSE, anomer |-> "X",
      handedness |-> "X", conformation |-> Indeterminate, params |-> 0,
      nonbond |-> nb] : r \in {3, 4, 7}}

\* the members of an MSugar no constructor body has written: containers and
\* strings are empty, the flags and the pointer hold whatever the storage held
unwrittenSugars ==
    {[ring |-> 0, supported |-> su, sane |-> sa, anomer |-> "",
      handedness |-> "", conformation |-> Indeterminate, params |-> 0,
      nonbond |-> "wild"] : su \in BOOLEAN, sa \in BOOLEAN}

\* line 77: the 5.0 A index is a temporary bound to a local reference
TwoArgIndex ==
    /\ tc_pc = "idle"
    /\ tc_live' = tc_live \cup {"nb"}
    /\ tc_pc' = "index"
    /\ UNCHANGED <<tc_temporary, tc_reference, tc_sugar>>
    /\ UNCHANGED <<bondVars, confVars, sugarVars, ringVars, puckerVars,
                   stereoVars, repeatVars, templateVars, searchVars,
                   examineVars>>

\* line 78: MSugar(ml, mm, nb) as an expression statement
TwoArgTemporary ==
    /\ tc_pc = "index"
    /\ \E built \in constructedSugars("nb") :
          /\ tc_temporary' = built
          /\ tc_reference' = built
    /\ tc_pc' = "temporary"
    /\ UNCHANGED <<tc_live, tc_sugar>>
    /\ UNCHANGED <<bondVars, confVars, sugarVars, ringVars, puckerVars,
                   stereoVars, repeatVars, templateVars, searchVars,
                   examineVars>>

\* line 79: the unnamed sugar and the index go out of scope; *this was not
\* touched by line 78
TwoArgReturn ==
    /\ tc_pc = "temporary"
    /\ tc_sugar' \in unwrittenSugars
    /\ tc_temporary' = NoSugar
    /\ tc_live' = tc_live \ {"nb"}
    /\ tc_pc' = "built"
    /\ UNCHANGED tc_reference
    /\ UNCHANGED <<bondVars, confVars, sugarVars, ringVars, puckerVars,
                   stereoVars, repeatVars, templateVars, searchVars,
                   examineVars>>

TwoArgIdle ==
    /\ tc_pc = "idle"
    /\ tc_live = {}
    /\ tc_temporary = NoSugar
    /\ tc_reference = NoSugar
    /\ tc_sugar = NoSugar

(***************************************************************************)
(* Construction of a sugar found in the database                           *)
(*                                                                         *)
(* Atoms carry their occupancy in percent.  A monomer holds, for every     *)
(* name of the template, nothing, one fully occupied atom, or partially    *)
(* occupied copies labelled with alternate-conformation codes.             *)
(***************************************************************************)
occupied(el, num, alt, occ) == [el |-> el, num |-> num, alt |-> alt, occ |-> occ]

\* MMonomer::lookup(str, MM::ANY): first atom with the name, -1 if none
lookupAny(atoms, nm) ==
    IF \E i \in 1..Len(atoms) : name(atoms[i]) = nm
    THEN CHOOSE i \in 1..Len(atoms) :
            /\ name(atoms[i]) = nm
            /\ \A j \in 1..(i - 1) : name(atoms[j]) # nm
    ELSE -1

\* MMonomer::lookup(str + " :" + alt, MM::UNIQUE): first atom with that id
lookupUnique(atoms, nm, alt) ==
    IF \E i \in 1..Len(atoms) : id(atoms[i]) = <<nm[1], nm[2], alt>>
    THEN CHOOSE i \in 1..Len(atoms) :
            /\ id(atoms[i]) = <<nm[1], nm[2], alt>>
            /\ \A j \in 1..(i - 1) : id(atoms[j]) # <<nm[1], nm[2], alt>>
    ELSE -1

\* the atom found by name kept when neither copy A nor copy B exists
resolveAtomLenient(atoms, nm, confcode) ==
    LET any == lookupAny(atoms, nm)
        a   == lookupUnique(atoms, nm, "A")
        b   == lookupUnique(atoms, nm, "B")
    IN  IF any = -1 THEN [index |-> -1, confcode |-> confcode]
        ELSE IF (atoms[any].occ < 100) /\ (get_altconf(atoms[any]) # " ")
        THEN (IF a # -1 THEN [index |-> a, confcode |-> " :B"]
              ELSE IF b # -1 THEN [index |-> b, confcode |-> " :B"]
              ELSE [index |-> any, confcode |-> confcode])
        ELSE [index |-> any, confcode |-> confcode]

\* lines 116-148: the index of the atom taken for one template name, -1 when
\* the constructor gives up, and the alternate-conformation code afterwards
resolveAtom(atoms, nm, confcode) ==
    LET any == lookupAny(atoms, nm)
        a   == lookupUnique(atoms, nm, "A")
        b   == lookupUnique(atoms, nm, "B")
    IN  IF any = -1 THEN [index |-> -1, confcode |-> confcode]
        ELSE IF (atoms[any].occ < 100) /\ (get_altconf(atoms[any]) # " ")
        THEN (IF a # -1 THEN [index |-> a, confcode |-> " :B"]
              ELSE IF b # -1 THEN [index |-> b, confcode |-> " :B"]
              ELSE [index |-> -1, confcode |-> confcode])
        ELSE [index |-> any, confcode |-> confcode]

RECURSIVE templateLoop(_, _, _, _, _)

\* lines 114-150: the loop over the template names, from name i on
templateLoop(atoms, buffer, i, ring, confcode) ==
    IF i > Len(buffer) THEN [found |-> TRUE, ring |-> ring, confcode |-> confcode]
    ELSE LET r == resolveAtom(atoms, buffer[i], confcode)
         IN  IF r.index = -1
             THEN [found |-> FALSE, ring |-> ring, confcode |-> r.confcode]
             ELSE templateLoop(atoms, buffer, i + 1,
                               Append(ring, atoms[r.index]), r.confcode)

\* ring_atoms of database entries, split into names
TemplateNames ==
    { << <<"O", 5>>, <<"C", 1>>, <<"C", 2>>, <<"C", 3>>, <<"C", 4>>, <<"C", 5>> >>,
      << <<"O", 4>>, <<"C", 1>>, <<"C", 2>>, <<"C", 3>>, <<"C", 4>> >> }

\* the atoms a monomer can hold under one name
atomCopies(nm) ==
    LET at(alt, occ) == occupied(nm[1], nm[2], alt, occ)
    IN  { << at(" ", 100) >>,
          << at(" ", 50) >>,
          << at("A", 50), at("B", 50) >>,
          << at("B", 50), at("A", 50) >>,
          << at("A", 50) >>,
          << at("B", 50) >>,
          << at("C", 50), at("D", 50) >>,
          << >> }

\* monomers for a template: the second and the fourth name vary, every other
\* name has one fully occupied atom
templateMonomers(buffer) ==
    LET full(k) == << occupied(buffer[k][1], buffer[k][2], " ", 100) >>
        tail(k) == IF k = 5 THEN full(5) ELSE full(5) \o full(6)
    IN  { full(1) \o second \o full(3) \o fourth \o tail(Len(buffer)) :
              second \in atomCopies(buffer[2]), fourth \in atomCopies(buffer[4]) }

\* lines 92-260 for a monomer whose type is in the database
TemplateConstruct ==
    /\ tp_pc = "idle"
    /\ \E buffer \in TemplateNames :
       \E atoms \in templateMonomers(buffer) :
          LET looked == templateLoop(atoms, buffer, 1, <<>>, " ")
          IN  /\ tp_atoms' = atoms
              /\ tp_template' = buffer
              /\ tp_ring' = looked.ring
              /\ tp_confcode' = looked.confcode
              /\ IF looked.found
                    THEN /\ \E an \in {"alpha", "beta"}, ha \in {"D", "L", "N"},
                               sa \in BOOLEAN :
                               tp_flags' = [supported |-> TRUE, sane |-> sa,
                                            denomination |-> "named",
                                            anomer |-> an, handedness |-> ha]
                         /\ tp_ran' = {"lookup_database", "pucker", "examine_ring"}
                    ELSE /\ tp_flags' = [supported |-> FALSE, sane |-> FALSE,
                                          denomination |-> Unsupported,
                                          anomer |-> "X", handedness |-> "X"]
                         /\ tp_ran' = {"lookup_database"}
    /\ tp_pc' = "built"
    /\ UNCHANGED <<bondVars, confVars, sugarVars, ringVars, puckerVars,
                   stereoVars, repeatVars, twoArgVars, searchVars, examineVars>>

TemplateIdle ==
    /\ tp_pc = "idle"
    /\ tp_atoms = <<>>
    /\ tp_template = <<>>
    /\ tp_ring = <<>>
    /\ tp_confcode = " "
    /\ tp_flags = [supported |-> Indeterminate, sane |-> Indeterminate,
                   denomination |-> "",
                   anomer |-> "", handedness |-> ""]
    /\ tp_ran = {}

(***************************************************************************)
(* The ring search, one loop iteration at a time                           *)
(*                                                                         *)
(* A frame of findPath holds the index of its atom, the neighbours it      *)
(* fetched on entry, the position of its for loop and its result so far.   *)
(***************************************************************************)
\* the deepest recursion followed
MaxDepth == 12

\* monomers without a ring: a lone water oxygen, a diatomic, glycerol
OpenMonomers ==
    { [atoms |-> <<atomOf("O", 0)>>, bonds |-> {}],
      [atoms |-> <<atomOf("O", 1), atomOf("O", 2)>>,
       bonds |-> {{<<"O", 1>>, <<"O", 2>>}}],
      [atoms |-> <<atomOf("C", 1), atomOf("C", 2), atomOf("C", 3),
                   atomOf("O", 1), atomOf("O", 2), atomOf("O", 3)>>,
       bonds |-> {{<<"C", 1>>, <<"C", 2>>}, {<<"C", 2>>, <<"C", 3>>},
                  {<<"C", 1>>, <<"O", 1>>}, {<<"C", 2>>, <<"O", 2>>},
                  {<<"C", 3>>, <<"O", 3>>}}],
      [atoms |-> <<atomOf("O", 2), atomOf("C", 2), atomOf("C", 1),
                   atomOf("C", 3), atomOf("O", 1), atomOf("O", 3)>>,
       bonds |-> {{<<"C", 1>>, <<"C", 2>>}, {<<"C", 2>>, <<"C", 3>>},
                  {<<"C", 1>>, <<"O", 1>>}, {<<"C", 2>>, <<"O", 2>>},
                  {<<"C", 3>>, <<"O", 3>>}}] }

\* monomers with two rings: a 1,6-anhydro pyranose in several atom orders
BridgedMonomers ==
    LET bonds == cycleBonds(<<atomOf("O", 5), atomOf("C", 1), atomOf("C", 2),
                              atomOf("C", 3), atomOf("C", 4), atomOf("C", 5)>>)
                 \cup chainBonds(<<atomOf("C", 5), atomOf("C", 6),
                                   atomOf("O", 6), atomOf("C", 1)>>)
    IN  { [atoms |-> order, bonds |-> bonds] :
            order \in { <<atomOf("C", 1), atomOf("C", 2), atomOf("C", 3),
                          atomOf("C", 4), atomOf("C", 5), atomOf("C", 6),
                          atomOf("O", 5), atomOf("O", 6)>>,
                        <<atomOf("O", 6), atomOf("C", 6), atomOf("C", 5),
                          atomOf("O", 5), atomOf("C", 1), atomOf("C", 2),
                          atomOf("C", 3), atomOf("C", 4)>>,
                        <<atomOf("C", 3), atomOf("C", 4), atomOf("C", 2),
                          atomOf("C", 5), atomOf("C", 1), atomOf("O", 5),
                          atomOf("C", 6), atomOf("O", 6)>> } }

\* lines 980-986: a frame as findPath sets it up on entry
enterFrame(mm, current_atom, background) ==
    [atom   |-> current_atom,
     paths  |-> findBonded(mm, mm.atoms[current_atom], background),
     i      |-> 1,
     result |-> <<>>]

\* a return that leaves the loop position of the caller where it was
returnToKeepIndex(stack, ret) ==
    IF Len(stack) = 1 THEN <<>>
    ELSE LET caller == stack[Len(stack) - 1]
         IN  Append(SubSeq(stack, 1, Len(stack) - 2),
                    [caller EXCEPT !.result = caller.result \o ret])

\* a return statement: the innermost frame goes, and the caller (lines
\* 1011-1012, then i++ of line 993) takes the value into its result
returnTo(stack, ret) ==
    IF Len(stack) = 1 THEN <<>>
    ELSE LET caller == stack[Len(stack) - 1]
         IN  Append(SubSeq(stack, 1, Len(stack) - 2),
                    [caller EXCEPT !.result = caller.result \o ret,
                                   !.i = caller.i + 1])

\* the atoms of the frames on the stack
onPath(mm, stack, ma) ==
    \E k \in 1..Len(stack) : name(mm.atoms[stack[k].atom]) = name(ma)

\* what one evaluation of closes_ring at line 998 adds to the reports
reported(mm, stack, neighbour, pushed, result) ==
    IF closes_ring(neighbour, pushed)
    THEN {[on_path |-> onPath(mm, stack, neighbour), taken |-> result = <<>>]}
    ELSE {}

\* line 890: ringMembers calls findPath(mm, 0, background)
SearchStart ==
    /\ fs_pc = "idle"
    /\ \E mm \in Monomers \cup OpenMonomers \cup BridgedMonomers :
          /\ fs_mm' = mm
          /\ fs_stack' = <<enterFrame(mm, 1, <<>>)>>
    /\ fs_pc' = "search"
    /\ UNCHANGED <<fs_background, fs_buffer, fs_reports, fs_steps, fs_ring,
                   fs_faults>>
    /\ UNCHANGED <<bondVars, confVars, sugarVars, ringVars, puckerVars,
                   stereoVars, repeatVars, twoArgVars, templateVars,
                   examineVars>>

\* what a return statement does to the rest of the state
SearchReturns(ret) ==
    /\ fs_stack' = returnTo(fs_stack, ret)
    /\ IF Len(fs_stack) = 1
          THEN fs_buffer' = ret /\ fs_pc' = "found"
          ELSE UNCHANGED <<fs_buffer, fs_pc>>
    /\ fs_steps' = fs_steps + 1
    /\ UNCHANGED <<fs_mm, fs_ring, fs_faults>>
    /\ UNCHANGED <<bondVars, confVars, sugarVars, ringVars, puckerVars,
                   stereoVars, repeatVars, twoArgVars, templateVars,
                   examineVars>>

\* lines 996-1003: the neighbour closes a ring and nothing was found before
SearchClose ==
    /\ fs_pc = "search"
    /\ LET top == fs_stack[Len(fs_stack)]
       IN  /\ top.i <= Len(top.paths)
           /\ LET current   == fs_mm.atoms[top.atom]
                  neighbour == top.paths[top.i]
                  pushed    == Append(fs_background, <<current, neighbour>>)
              IN  /\ closes_ring(neighbour, pushed) /\ (top.result = <<>>)
                  /\ fs_background' = pushed
                  /\ fs_reports' = fs_reports \cup
                         reported(fs_mm, fs_stack, neighbour, pushed, top.result)
                  /\ SearchReturns(<<neighbour, current>>)

\* lines 996, 1004-1008: a ring was found deeper down; the frame adds its
\* atom and returns
SearchUnwind ==
    /\ fs_pc = "search"
    /\ LET top == fs_stack[Len(fs_stack)]
       IN  /\ top.i <= Len(top.paths)
           /\ LET current   == fs_mm.atoms[top.atom]
                  neighbour == top.paths[top.i]
                  pushed    == Append(fs_background, <<current, neighbour>>)
              IN  /\ top.result # <<>>
                  /\ fs_background' = pushed
                  /\ fs_reports' = fs_reports \cup
                         reported(fs_mm, fs_stack, neighbour, pushed, top.result)
                  /\ SearchReturns(Append(top.result, current))

\* lines 996, 1009-1011: findPath calls itself on the neighbour
SearchDescend ==
    /\ fs_pc = "search"
    /\ Len(fs_stack) < MaxDepth
    /\ LET top == fs_stack[Len(fs_stack)]
       IN  /\ top.i <= Len(top.paths)
           /\ LET current   == fs_mm.atoms[top.atom]
                  neighbour == top.paths[top.i]
                  pushed    == Append(fs_background, <<current, neighbour>>)
              IN  /\ ~closes_ring(neighbour, pushed)
                  /\ top.result = <<>>
                  /\ fs_background' = pushed
                  /\ fs_stack' = Append(fs_stack,
                         enterFrame(fs_mm, lookup(fs_mm, name(neighbour)), pushed))
    /\ fs_steps' = fs_steps + 1
    /\ UNCHANGED <<fs_pc, fs_mm, fs_buffer, fs_reports, fs_ring, fs_faults>>
    /\ UNCHANGED <<bondVars, confVars, sugarVars, ringVars, puckerVars,
                   stereoVars, repeatVars, twoArgVars, templateVars,
                   examineVars>>

\* lines 988-991 and 1016-1018: no neighbour is left
SearchExhausted ==
    /\ fs_pc = "search"
    /\ LET top == fs_stack[Len(fs_stack)]
       IN  /\ top.i > Len(top.paths)
           /\ SearchReturns(IF top.result # <<>>
                            THEN Append(top.result, fs_mm.atoms[top.atom])
                            ELSE top.result)
    /\ UNCHANGED <<fs_background, fs_reports>>

\* lines 895-967: ringMembers trims and reorders the path.  Erasing the
\* first element of an empty vector is undefined: the call may end the
\* program, or leave the vector empty and go on to resize(1).
RingMembersFilter ==
    /\ fs_pc = "found"
    /\ IF fs_buffer = <<>>
          THEN /\ fs_faults' = fs_faults \cup {[line |-> 899, position |-> 0]}
               /\ \/ /\ fs_pc' = "crashed"
                     /\ UNCHANGED fs_ring
                  \/ /\ fs_pc' = "filtered"
                     /\ fs_ring' = canonicalReorder(<<NullAtom>>)
          ELSE /\ fs_ring' = canonicalReorder(trimPath(fs_buffer))
               /\ fs_pc' = "filtered"
               /\ UNCHANGED fs_faults
    /\ UNCHANGED <<fs_mm, fs_stack, fs_background, fs_buffer, fs_reports, fs_steps>>
    /\ UNCHANGED <<bondVars, confVars, sugarVars, ringVars, puckerVars,
                   stereoVars, repeatVars, twoArgVars, templateVars,
                   examineVars>>

\* the ring positions the constructor reads whatever the size of the ring:
\* line 185 reads position 1; examine_ring, called at line 202, reads
\* positions size-1, 0, 1 and 2 at lines 1423-1441
ringReads(n) ==
    {[line |-> 185, position |-> 1],
     [line |-> 1423, position |-> n - 1],
     [line |-> 1423, position |-> 0],
     [line |-> 1428, position |-> 1],
     [line |-> 1441, position |-> 2]}

\* lines 160-202: the constructor goes on with the ring it was given
ConstructorReads ==
    /\ fs_pc = "filtered"
    /\ LET n   == Len(fs_ring)
           out == {r \in ringReads(n) : (r.position < 0) \/ (r.position >= n)}
       IN  /\ fs_faults' = fs_faults \cup out
           /\ IF out = {} THEN fs_pc' = "built"
              ELSE fs_pc' \in {"built", "crashed"}
    /\ UNCHANGED <<fs_mm, fs_stack, fs_background, fs_buffer, fs_reports, fs_steps,
                   fs_ring>>
    /\ UNCHANGED <<bondVars, confVars, sugarVars, ringVars, puckerVars,
                   stereoVars, repeatVars, twoArgVars, templateVars,
                   examineVars>>

SearchIdle ==
    /\ fs_pc = "idle"
    /\ fs_mm = EmptyMonomer
    /\ fs_stack = <<>>
    /\ fs_background = <<>>
    /\ fs_buffer = <<>>
    /\ fs_reports = {}
    /\ fs_steps = 0
    /\ fs_ring = <<>>
    /\ fs_faults = {}

(***************************************************************************)
(* examine_ring: the ring bonds                                            *)
(*                                                                         *)
(* Ring positions count from 0 as in the source.  Lengths are in           *)
(* thousandths of an Angstrom.                                             *)
(***************************************************************************)
\* Coord_orth::length between the atoms at two ring positions
ringBond(length, n, a, b) ==
    IF (a + 1) % n = b THEN length[a]
    ELSE IF (b + 1) % n = a THEN length[b]
    ELSE 2500

\* the pairs of positions pushed onto sugar_ring_bonds, in order: line 1436,
\* line 1461 for i = 1 .. size-2, and line 1500 with i left at size-1
measuredPairs(n) ==
    << <<n - 1, 0>> >> \o [i \in 1..(n - 2) |-> <<i + 1, i>>] \o << <<0, n - 1>> >>

\* lines 1508-1509: the length a bond is compared with
idealLength(j, count) ==
    IF (j = 0) \/ (j = count - 1) THEN 1430 ELSE 1530

\* lines 1422-1509 on a ring of three to six atoms
ExamineRingBonds ==
    /\ er_pc = "idle"
    /\ \E n \in {3, 4, 5, 6} :
       \E length \in [0..(n - 1) -> {1430, 1530}] :
          LET pairs == measuredPairs(n)
          IN  /\ er_size' = n
              /\ er_length' = length
              /\ er_bonds' =
                     [j \in 1..Len(pairs) |->
                         [from   |-> pairs[j][1],
                          to     |-> pairs[j][2],
                          length |-> ringBond(length, n, pairs[j][1], pairs[j][2]),
                          ideal  |-> idealLength(j - 1, Len(pairs))]]
    /\ er_pc' = "examined"
    /\ UNCHANGED <<bondVars, confVars, sugarVars, ringVars, puckerVars,
                   stereoVars, repeatVars, twoArgVars, templateVars,
                   searchVars>>

ExamineIdle ==
    /\ er_pc = "idle"
    /\ er_size = 0
    /\ er_length = <<>>
    /\ er_bonds = <<>>

(***************************************************************************)
(* Specifications                                                          *)
(***************************************************************************)
StereoIdle ==
    /\ gs_pc = "idle"
    /\ gs_mol = NoStructure
    /\ gs_anomeric_carbon = XXX
    /\ gs_anomeric_substituent = XXX
    /\ gs_configurational_carbon = XXX
    /\ gs_configurational_substituent = XXX
    /\ gs_next_carbon = XXX
    /\ gs_steps = 0
    /\ gs_z = [anomeric_carbon |-> 0, anomeric_substituent |-> 0,
               configurational_carbon |-> 0, configurational_substituent |-> 0]
    /\ gs_lurd = FALSE
    /\ gs_anomer = ""

PuckerIdle ==
    /\ pk_pc = "idle"
    /\ pk_ring = <<>>
    /\ pk_cc = XXX
    /\ pk_z = [anomeric_carbon |-> 0, anomeric_substituent |-> 0,
               configurational_carbon |-> 0, configurational_substituent |-> 0,
               closing |-> 0]
    /\ pk_neighbourhood = <<>>
    /\ pk_lurd = FALSE
    /\ pk_anomer = ""
    /\ pk_substituent = NoSubstituent
    /\ pk_handedness = ""

RingIdle ==
    /\ ring_pc = "idle"
    /\ ring_mm = EmptyMonomer
    /\ ring_buffer = <<>>
    /\ ring_cycle = <<>>
    /\ ring_result = <<>>
    /\ ring_again = <<>>

BondIdle ==
    /\ bond_pc = "idle"
    /\ bond_overload = "none"
    /\ ma_one = "C"
    /\ ma_two = "C"
    /\ distance = 0
    /\ bond_fwd = FALSE
    /\ bond_rev = FALSE

ConfIdle ==
    /\ conf_pc = "idle"
    /\ phi = 0
    /\ theta = 0
    /\ confCode = confCodeInit

\* the object before the constructor body runs
SugarFresh ==
    /\ pc = "start"
    /\ ran = {}
    /\ sugar_found_db = FALSE
    /\ db_handedness = "none"
    /\ db_anomer = "none"
    /\ sugar_supported = Indeterminate
    /\ sugar_sane = Indeterminate
    /\ sugar_denomination = ""
    /\ sugar_anomer = ""
    /\ sugar_handedness = ""
    /\ sugar_ring_elements = <<>>
    /\ sugar_conformation = Indeterminate
    /\ sugar_ring_bond_rmsd = Indeterminate
    /\ sugar_ring_angle_rmsd = Indeterminate
    /\ sugar_diag_ring = Indeterminate
    /\ sugar_diag_chirality = Indeterminate
    /\ sugar_diag_anomer = Indeterminate
    /\ sugar_diag_bonds_rmsd = Indeterminate
    /\ sugar_diag_angles_rmsd = Indeterminate

Init == BondIdle /\ ConfIdle /\ SugarFresh /\ RingIdle /\ PuckerIdle
        /\ StereoIdle /\ RepeatIdle /\ TwoArgIdle /\ TemplateIdle /\ SearchIdle /\ ExamineIdle

\* the constructor MSugar(ml, mm, nb)
Next ==
    \/ LookupDatabase
    \/ TemplateRing
    \/ RingMembers
    \/ Pucker
    \/ Denomination
    \/ ExamineRing
    \/ Diagnostics

Spec == Init /\ [][Next]_vars

\* the bond oracle on its own
NextBond ==
    \/ BondedCall
    \/ BondedSymmetryCall

SpecBond == Init /\ [][NextBond]_vars

\* the conformation classifiers on their own
NextConf ==
    \/ ClassifyPyranose
    \/ ClassifyFuranose

SpecConf == Init /\ [][NextConf]_vars

\* the ring finder on its own
NextRing ==
    \/ RingMembersCall
    \/ Recanonicalise

SpecRing == Init /\ [][NextRing]_vars

\* the anomer and handedness decisions on their own
NextPucker ==
    \/ CremerPoplePyranose
    \/ CremerPopleFuranose

SpecPucker == Init /\ [][NextPucker]_vars

\* get_stereochemistry on its own
NextStereo ==
    \/ AnomericSearch
    \/ RingScan
    \/ WalkStep
    \/ WalkExit
    \/ AnomerFromStereo

SpecStereo == Init /\ [][NextStereo]_vars

\* the pucker analysis repeated on one sugar
NextRepeat ==
    \/ FirstPuckerRun
    \/ SecondPuckerRun

SpecRepeat == Init /\ [][NextRepeat]_vars

\* the two-argument constructor
NextTwoArg ==
    \/ TwoArgIndex
    \/ TwoArgTemporary
    \/ TwoArgReturn

SpecTwoArg == Init /\ [][NextTwoArg]_vars

\* construction of a sugar found in the database
NextTemplate ==
    \/ TemplateConstruct

SpecTemplate == Init /\ [][NextTemplate]_vars

\* the ring search, one loop iteration at a time
NextSearch ==
    \/ SearchStart
    \/ SearchClose
    \/ SearchUnwind
    \/ SearchDescend
    \/ SearchExhausted
    \/ RingMembersFilter
    \/ ConstructorReads

SpecSearch == Init /\ [][NextSearch]_vars

\* examine_ring on rings of three to six atoms
NextExamine ==
    \/ ExamineRingBonds

SpecExamine == Init /\ [][NextExamine]_vars

(***************************************************************************)
(* Properties                                                              *)
(***************************************************************************)
\* C1: the bond oracle is symmetric: bonded(a,b) and bonded(b,a) return the
\* same boolean for every pair of elements and every distance.
BondOracleSymmetric ==
    bond_pc = "done" => bond_fwd = bond_rev

\* C2: for an element pair without a row of its own in the distance-window
\* table, bonded returns true exactly when the distance lies strictly inside
\* the fallback window 1.20-1.80 A, whichever atom is passed first.
UnknownPairUsesFallback ==
    LET rows == { {"C"}, {"C", "N"}, {"C", "O"}, {"C", "H"}, {"N", "H"}, {"O", "H"} }
    IN  (bond_pc = "done" /\ {ma_one, ma_two} \notin rows)
            => /\ bond_fwd = ((distance > 120) /\ (distance < 180))
               /\ bond_rev = ((distance > 120) /\ (distance < 180))

\* C3: a sugar whose ring has neither 5 nor 6 atoms ends with supported=false,
\* anomer "X", handedness "X" and the "unsupported" denomination, and no
\* denomination building, ring examination or sanity flags ran for it.
RejectedRingStaysUnsupported ==
    (pc = "done" /\ "rejected" \in ran)
        => /\ sugar_supported = FALSE
           /\ sugar_anomer = "X"
           /\ sugar_handedness = "X"
           /\ sugar_denomination = Unsupported
           /\ ran \cap {"denomination", "examine_ring", "sanity_flags"} = {}

AnomerFlagInverted ==
    (pc = "done" /\ sugar_found_db)
        => (sugar_diag_anomer <=>
               \/ (sugar_anomer = "alpha") /\ (db_anomer = "B")
               \/ (sugar_anomer = "beta") /\ (db_anomer = "A"))

\* C5 amended: for a recognized sugar the anomer flag is true exactly when
\* the anomer is alpha and the reference code is anything but "B", or the
\* anomer is beta and the reference code is anything but "A" (alpha goes
\* with "A", beta with "B"); an anomer that is neither never passes.
AnomerFlagDirect ==
    (pc = "done" /\ sugar_found_db)
        => sugar_diag_anomer =
              CASE sugar_anomer = "alpha" -> db_anomer # "B"
                [] sugar_anomer = "beta"  -> db_anomer # "A"
                [] OTHER                  -> FALSE

\* C5 witness: alpha against reference "A" passes
AnomerAlphaWithA ==
    /\ pc = "done"
    /\ sugar_found_db
    /\ sugar_anomer = "alpha"
    /\ db_anomer = "A"
    /\ sugar_diag_anomer = TRUE

\* C6 as stated: for a recognized sugar, with reference "D" (or "L") the
\* chirality flag is true only if the handedness is that letter; with any
\* other reference it is true for every handedness.
ChiralityFlagStrict ==
    (pc = "done" /\ sugar_found_db)
        => /\ (db_handedness \in {"D", "L"} /\ sugar_diag_chirality)
                 => sugar_handedness = db_handedness
           /\ db_handedness \notin {"D", "L"} => sugar_diag_chirality

\* C6 amended: for a recognized sugar the chirality flag is false exactly
\* when the reference is "D" and the handedness is "L", or the reference is
\* "L" and the handedness is "D"; a handedness of "N" (or "X") passes
\* against every reference.
ChiralityFlagOppositeOnly ==
    (pc = "done" /\ sugar_found_db)
        => (sugar_diag_chirality = FALSE <=>
               \/ (db_handedness = "D") /\ (sugar_handedness = "L")
               \/ (db_handedness = "L") /\ (sugar_handedness = "D"))

\* C6 witness: handedness "N" passes against reference "D"
ChiralityUndeterminedPasses ==
    /\ pc = "done"
    /\ sugar_found_db
    /\ db_handedness = "D"
    /\ sugar_handedness = "N"
    /\ sugar_diag_chirality = TRUE

\* C7: for a recognized sugar whose analysis ran to the end, sane is true if
\* and only if all five flags are true.
SaneIffAllFiveFlags ==
    (pc = "done" /\ sugar_found_db)
        => (sugar_sane <=>
               /\ sugar_diag_ring
               /\ sugar_diag_chirality
               /\ sugar_diag_anomer
               /\ sugar_diag_bonds_rmsd
               /\ sugar_diag_angles_rmsd)

\* C7 witness: a recognized sugar that ends sane
RecognizedSane ==
    /\ pc = "done"
    /\ sugar_found_db
    /\ sugar_sane = TRUE
    /\ sugar_diag_ring = TRUE

\* C8: for a recognized sugar, bond-RMSD pass is true iff the bond RMSD is
\* below 0.040 (5-ring) or 0.035 (6-ring); angle-RMSD pass is true iff the
\* angle RMSD is strictly between 4.0 and 7.5 (5-ring) or below 4.0
\* (6-ring); a pyranose with bond RMSD 0.03, angle RMSD 3.0 and the other
\* three flags true is sane.
RmsdFlagsFollowThresholds ==
    (pc = "done" /\ sugar_found_db)
        => /\ Len(sugar_ring_elements) = 5
                 => /\ sugar_diag_bonds_rmsd <=> sugar_ring_bond_rmsd < 40
                    /\ sugar_diag_angles_rmsd <=>
                          (sugar_ring_angle_rmsd > 8 /\ sugar_ring_angle_rmsd < 15)
           /\ Len(sugar_ring_elements) = 6
                 => /\ sugar_diag_bonds_rmsd <=> sugar_ring_bond_rmsd < 35
                    /\ sugar_diag_angles_rmsd <=> sugar_ring_angle_rmsd < 8
           /\ ( /\ Len(sugar_ring_elements) = 6
                /\ sugar_ring_bond_rmsd = 30
                /\ sugar_ring_angle_rmsd = 6
                /\ sugar_diag_ring
                /\ sugar_diag_chirality
                /\ sugar_diag_anomer ) => sugar_sane

\* C8 witness: the sane pyranose with bond RMSD 0.03 and angle RMSD 3.0
SanePyranoseExample ==
    /\ pc = "done"
    /\ sugar_found_db
    /\ Len(sugar_ring_elements) = 6
    /\ sugar_ring_bond_rmsd = 30
    /\ sugar_ring_angle_rmsd = 6
    /\ sugar_sane = TRUE

\* C9: pyranose classification is total and unambiguous on phi in [0,360),
\* theta in [0,180]: the result is never the unassigned code, it is the
\* name of the theta band and phi sector the angles lie in, and an angle on
\* a boundary belongs to the band or sector it is the upper bound of (the
\* wraparound sector 345-15 takes 15 and not 345).
PyranoseTotal ==
    conf_pc = "pyranose" =>
        LET band   == IF theta <= 45 THEN 0 ELSE ((theta - 46) \div 90) + 1
            sector == ((phi + 29) \div 60) % 12
            north  == << "OE", "OH1", "E1", "2H1", "2E", "2H3", "E3",
                         "4H3", "4E", "4H5", "E5", "OH5" >>
            middle == << "3OB", "3S1", "B14", "5S1", "25B", "2SO", "B3O",
                         "1S3", "14B", "1S5", "B25", "OS2" >>
            south  == << "3E", "3H4", "E4", "5H4", "5E", "5HO", "EO",
                         "1HO", "1E", "1H2", "E2", "3H2" >>
        IN  /\ confCode # confCodeInit
            /\ confCode = "conf_pyranose_" \o
                  ( CASE band = 0 -> "4C1"
                      [] band = 1 -> north[sector + 1]
                      [] band = 2 -> middle[sector + 1]
                      [] band = 3 -> south[sector + 1]
                      [] OTHER    -> "1C4" )

\* C9 witness: theta on the 67.5 boundary and phi on the 45 boundary
PyranoseOnBoundaries ==
    /\ conf_pc = "pyranose"
    /\ theta = 135
    /\ phi = 90
    /\ confCode = "conf_pyranose_OH1"

\* C10: furanose classification is total on [0,360), sector boundaries
\* included: the result is never the unassigned code.
FuranoseTotal ==
    conf_pc = "furanose" => confCode # confCodeInit

\* C11 as stated: the chair bands dominate phi: for every phi, theta <= 22.5
\* yields conf_pyranose_4C1 and theta >= 157.5 yields conf_pyranose_1C4.
ChairBandsClosed ==
    conf_pc = "pyranose" =>
        /\ theta <= 45 => confCode = "conf_pyranose_4C1"
        /\ theta >= 315 => confCode = "conf_pyranose_1C4"

\* C11 amended: for every phi, theta <= 22.5 yields conf_pyranose_4C1 and
\* theta > 157.5 yields conf_pyranose_1C4; theta = 157.5 is the inclusive
\* upper bound of the envelope/half-chair band and is named by phi.
ChairBandsDominate ==
    conf_pc = "pyranose" =>
        /\ theta <= 45 => confCode = "conf_pyranose_4C1"
        /\ theta > 315 => confCode = "conf_pyranose_1C4"
        /\ theta = 315 => confCode = envelopesSouth(phi)

\* C11 witness: just above 157.5 the answer is 1C4 although phi = 50
ChairAboveBoundary ==
    /\ conf_pc = "pyranose"
    /\ theta = 316
    /\ phi = 100
    /\ confCode = "conf_pyranose_1C4"

\* C12: two furanose angles lying in different 9-degree sectors never
\* receive the same conformation code (angles on a sector boundary, which
\* get no name at all, are left aside).
FuranoseSectorsDistinct ==
    LET interior(t) == (t > 351) \/ ((t + 9) % 18 # 0)
        sector(t)   == IF t > 351 THEN 0 ELSE ((t + 8) \div 18) % 20
    IN  (conf_pc = "furanose" /\ interior(theta)) =>
            \A other \in 0..MaxPhi :
                (interior(other) /\ sector(other) # sector(theta))
                    => conformationFuranose(other) # confCode

\* C13: every 5- or 6-atom ring returned by ringMembers has each pair of
\* cyclically consecutive atoms, the pair (last, first) included, bonded in
\* the monomer, and the ring oxygen at position 0.
ReturnedRingIsClosed ==
    (ring_pc # "idle" /\ Len(ring_result) \in {5, 6}) =>
        /\ \A i \in 1..Len(ring_result) :
              LET d == bond_length(ring_mm, ring_result[i],
                                   ring_result[(i % Len(ring_result)) + 1])
              IN  (d > 50) /\ (d < 161)
        /\ ring_result[1].el = "O"

\* C14: the ring returned is a permutation of the cycle found by the search,
\* with the oxygen at position 0 and the carbons after it in strictly
\* ascending order of the number in their names.
ReorderIsSortedPermutation ==
    ring_pc # "idle" =>
        /\ Len(ring_result) = Len(ring_cycle)
        /\ {name(ring_result[i]) : i \in 1..Len(ring_result)}
               = {name(ring_cycle[i]) : i \in 1..Len(ring_cycle)}
        /\ Len(ring_result) > 0 => ring_result[1].el = "O"
        /\ \A i \in 2..Len(ring_result) : \A j \in 2..Len(ring_result) :
              (i < j) =>
                  /\ ring_result[i].el = "C"
                  /\ ring_result[j].el = "C"
                  /\ ring_result[i].num < ring_result[j].num

\* C15: reordering a ring that is already canonical (one oxygen first, then
\* carbons in ascending order) returns the same sequence of atoms.
ReorderIdempotent ==
    LET canonical(r) ==
            /\ Len(r) > 1
            /\ r[1].el = "O"
            /\ \A i \in 2..Len(r) : r[i].el = "C"
            /\ \A i \in 2..(Len(r) - 1) : r[i].num < r[i + 1].num
    IN  (ring_pc = "reordered" /\ canonical(ring_result))
            => ring_again = ring_result

\* C15 witness: a pyranose ring found in the order C3, C2, C1, O5, C5, C4 was
\* put in canonical order and reordered once more
CanonicalRingReordered ==
    /\ ring_pc = "reordered"
    /\ Len(ring_cycle) = 6
    /\ name(ring_cycle[1]) = <<"C", 3>>
    /\ ring_result = <<atomOf("O", 5), atomOf("C", 1), atomOf("C", 2),
                       atomOf("C", 3), atomOf("C", 4), atomOf("C", 5)>>
    /\ ring_again = ring_result

\* C16: the anomer label is alpha exactly when (both substituents lie above
\* their carbons, or both below) differs from lurd_reverse; lurd_reverse holds
\* exactly when a configurational carbon was found and it is the atom at the
\* last ring position or not a ring atom; the same for 5- and 6-rings.
AnomerFollowsSideTable ==
    pk_pc # "idle" =>
        LET same ==
                \/ (pk_z.anomeric_substituent > pk_z.anomeric_carbon)
                   /\ (pk_z.configurational_substituent > pk_z.configurational_carbon)
                \/ (pk_z.anomeric_substituent < pk_z.anomeric_carbon)
                   /\ (pk_z.configurational_substituent < pk_z.configurational_carbon)
            inRing == \E i \in 1..Len(pk_ring) : pk_ring[i] = pk_cc
        IN  /\ pk_lurd <=> ((pk_cc # XXX)
                               /\ ((pk_cc = pk_ring[Len(pk_ring)]) \/ ~inRing))
            /\ (pk_anomer = "alpha") <=> (same # pk_lurd)
            /\ pk_anomer \in {"alpha", "beta"}

\* C16 witness: a pyranose whose configurational carbon is the exocyclic C6,
\* both substituents above their carbons: flipped to beta
ExocyclicCarbonFlipsAnomer ==
    /\ pk_pc = "pyranose"
    /\ pk_cc = atomOf("C", 6)
    /\ pk_z.anomeric_substituent > pk_z.anomeric_carbon
    /\ pk_z.configurational_substituent > pk_z.configurational_carbon
    /\ pk_lurd
    /\ pk_anomer = "beta"

\* C17: handedness is N when no neighbour of the ring-closing carbon passes
\* the substituent filter (not hydrogen, not the carbon itself, nearer than
\* 1.8 A, not a ring atom and, in a pyranose, of the carbon's occupancy) or
\* the substituent is a ring atom; otherwise D when z_closing - z_substituent
\* is negative and L when it is positive; and the substituent is a carbon
\* only if no non-carbon neighbour passes the filter, in whatever order the
\* neighbours come.
HandednessFollowsSubstituent ==
    pk_pc # "idle" =>
        LET closing == pk_ring[Len(pk_ring)]
            inRing(a) == \E i \in 1..Len(pk_ring) : pk_ring[i] = a
            qualifies(n) ==
                /\ n.atom.el # "H"
                /\ n.atom # closing
                /\ n.dist < 180
                /\ ~inRing(n.atom)
                /\ (pk_pc = "pyranose") => (n.occ = 100)
            candidates == {pk_neighbourhood[i] : i \in 1..Len(pk_neighbourhood)}
            found == {n \in candidates : qualifies(n)}
        IN  /\ (found = {}) => (pk_substituent.atom = XXX /\ pk_handedness = "N")
            /\ inRing(pk_substituent.atom) => (pk_handedness = "N")
            /\ (found # {}) =>
                  /\ pk_substituent \in found
                  /\ (pk_z.closing - pk_substituent.z < 0) => (pk_handedness = "D")
                  /\ (pk_z.closing - pk_substituent.z > 0) => (pk_handedness = "L")
            /\ (pk_substituent.atom.el = "C") => (\A n \in found : n.atom.el = "C")

\* C17 witness: the exocyclic nitrogen comes first, the exocyclic carbon
\* after it, and the nitrogen is kept; it lies below the ring carbon: L
NonCarbonKeptOverCarbon ==
    /\ pk_pc = "pyranose"
    /\ Len(pk_neighbourhood) = 2
    /\ pk_neighbourhood[1].atom = atomOf("N", 5)
    /\ pk_neighbourhood[2].atom = atomOf("C", 6)
    /\ pk_substituent.atom = atomOf("N", 5)
    /\ pk_z.closing = 0
    /\ pk_handedness = "L"

\* C18: the anomeric substituent is the XXX sentinel or an atom outside the
\* ring, not a hydrogen, bonded to ring position 1 and carrying the same
\* alternate-conformation code as the anomeric carbon.
AnomericSubstituentSameConformation ==
    gs_pc # "idle" =>
        \/ gs_anomeric_substituent = XXX
        \/ /\ \A i \in 1..Len(gs_mol.ring) : gs_mol.ring[i] # gs_anomeric_substituent
           /\ gs_anomeric_substituent.el # "H"
           /\ {gs_anomeric_substituent, gs_mol.ring[2]} \in gs_mol.bonds
           /\ gs_anomeric_substituent.alt = gs_mol.ring[2].alt

\* C19 as stated: when the outward walk starts, the configurational carbon is
\* the first ring carbon, scanning positions 2, 3, ..., that passes the
\* stereocentre test.
InitialCarbonIsFirstStereocentre ==
    (gs_pc = "walk" /\ gs_steps = 0) =>
        LET passing == {i \in 3..Len(gs_mol.ring) :
                           /\ gs_mol.ring[i].el = "C"
                           /\ is_stereocentre(gs_mol, gs_mol.ring[i])}
        IN  (passing # {}) =>
                \E i \in passing :
                    /\ \A j \in passing : i <= j
                    /\ gs_configurational_carbon = gs_mol.ring[i]

\* C19 amended: when the outward walk starts, the configurational carbon is
\* the last ring carbon, scanning positions 2, 3, ..., that passes the
\* stereocentre test (every passing carbon replaces the one before it), and
\* the XXX sentinel if none passes.
InitialCarbonIsLastStereocentre ==
    (gs_pc = "walk" /\ gs_steps = 0) =>
        LET passing == {i \in 3..Len(gs_mol.ring) :
                           /\ gs_mol.ring[i].el = "C"
                           /\ is_stereocentre(gs_mol, gs_mol.ring[i])}
        IN  /\ (passing = {}) => (gs_configurational_carbon = XXX)
            /\ (passing # {}) =>
                  \E i \in passing :
                      /\ \A j \in passing : j <= i
                      /\ gs_configurational_carbon = gs_mol.ring[i]

\* C19 witness: C2 and C5 both pass the test and the walk starts from C5
LaterStereocentreReplacesEarlier ==
    /\ gs_pc = "walk"
    /\ gs_steps = 0
    /\ is_stereocentre(gs_mol, gs_mol.ring[3])
    /\ is_stereocentre(gs_mol, gs_mol.ring[6])
    /\ gs_configurational_carbon = gs_mol.ring[6]

\* C20: the outward walk ends: every iteration moves to a carbon outside the
\* ring that lies farther from the ring-closing atom, so it never makes more
\* iterations than there are carbons outside the ring, with or without
\* alternate-conformation codes.
WalkIsBounded ==
    gs_steps <= Cardinality({a \in DOMAIN gs_mol.reach :
                                /\ a.el = "C"
                                /\ \A i \in 1..Len(gs_mol.ring) : gs_mol.ring[i] # a})

\* C21: when get_stereochemistry hands back the XXX sentinel for the anomeric
\* substituent, the configurational carbon or the configurational
\* substituent, the anomer label does not depend on the height of that
\* sentinel: any other height for it would give the same label.
SentinelHeightNotCompared ==
    gs_pc = "labelled" =>
        /\ (gs_anomeric_substituent = XXX) =>
              \A h \in Heights :
                  anomerLabel([gs_z EXCEPT !.anomeric_substituent = h], gs_lurd)
                      = gs_anomer
        /\ (gs_configurational_carbon = XXX) =>
              \A h \in Heights :
                  anomerLabel([gs_z EXCEPT !.configurational_carbon = h], gs_lurd)
                      = gs_anomer
        /\ (gs_configurational_substituent = XXX) =>
              \A h \in Heights :
                  anomerLabel([gs_z EXCEPT !.configurational_substituent = h], gs_lurd)
                      = gs_anomer

\* C22: a second run of the pucker analysis on the same sugar returns the
\* vector the first run returned and leaves the stored pucker parameters
\* as the first run left them.
PuckerRunIsPure ==
    cp_pc = "twice" =>
        /\ cp_second = cp_first
        /\ cp_stored = cp_stored_once

\* C23: the sugar built by MSugar(ml, mm) has the ring, pucker parameters,
\* conformation, anomer, handedness and flags that MSugar(ml, mm, nb) builds
\* with a 5.0 A index, and the index it points to still exists.
TwoArgMatchesThreeArg ==
    tc_pc = "built" =>
        /\ \A f \in {"ring", "supported", "sane", "anomer", "handedness",
                     "conformation", "params"} : tc_sugar[f] = tc_reference[f]
        /\ tc_sugar.nonbond \in tc_live

\* C24: when a name of the template has no atom in the monomer, or its atom
\* is partially occupied with an alternate-conformation code and neither the
\* A nor the B copy exists, the constructor stops with supported = false,
\* sane = false, anomer "X", handedness "X" and the unsupported denomination,
\* and neither the graph search nor the pucker analysis has run.
TemplateFailureStopsConstruction ==
    LET named(nm) == {i \in 1..Len(tp_atoms) : name(tp_atoms[i]) = nm}
        first(nm) == CHOOSE i \in named(nm) : \A j \in named(nm) : i <= j
        copy(nm, alt) == \E i \in named(nm) : tp_atoms[i].alt = alt
        unresolved(nm) ==
            \/ named(nm) = {}
            \/ /\ named(nm) # {}
               /\ tp_atoms[first(nm)].occ < 100
               /\ tp_atoms[first(nm)].alt # " "
               /\ ~copy(nm, "A")
               /\ ~copy(nm, "B")
    IN  (tp_pc = "built" /\ \E k \in 1..Len(tp_template) : unresolved(tp_template[k]))
        => /\ tp_flags.supported = FALSE
           /\ tp_flags.sane = FALSE
           /\ tp_flags.anomer = "X"
           /\ tp_flags.handedness = "X"
           /\ tp_flags.denomination = "    unsupported    "
           /\ tp_ran \cap {"ringMembers", "pucker", "examine_ring"} = {}

\* C24 witness: C1 exists only as copies C and D, and the sugar was given up
\* after the ring oxygen alone had been fetched.
NeitherCopyGivesUp ==
    /\ tp_pc = "built"
    /\ \E i \in 1..Len(tp_atoms) :
          name(tp_atoms[i]) = <<"C", 1>> /\ tp_atoms[i].alt = "C"
    /\ \A i \in 1..Len(tp_atoms) :
          name(tp_atoms[i]) = <<"C", 1>> => tp_atoms[i].alt \in {"C", "D"}
    /\ tp_flags.supported = FALSE
    /\ Len(tp_ring) = 1
    /\ tp_ran = {"lookup_database"}

\* C30: for a template name whose atom is partially occupied and carries an
\* alternate-conformation code, the ring holds the A copy when there is one
\* and the B copy otherwise, and the code recorded for the sugar is that of
\* the copy taken.
RecordedCodeIsCopyTaken ==
    LET named(nm) == {i \in 1..Len(tp_atoms) : name(tp_atoms[i]) = nm}
        first(nm) == CHOOSE i \in named(nm) : \A j \in named(nm) : i <= j
        copy(nm, alt) == \E i \in named(nm) : tp_atoms[i].alt = alt
        split(nm) ==
            /\ named(nm) # {}
            /\ tp_atoms[first(nm)].occ < 100
            /\ tp_atoms[first(nm)].alt # " "
    IN  (tp_pc = "built" /\ tp_flags.supported = TRUE) =>
            \A k \in 1..Len(tp_template) :
                split(tp_template[k]) =>
                    /\ tp_ring[k].alt =
                           IF copy(tp_template[k], "A") THEN "A" ELSE "B"
                    /\ tp_confcode =
                           IF tp_ring[k].alt = "A" THEN " :A" ELSE " :B"

\* C25: whenever closes_ring answers that a neighbour closes a ring, the
\* neighbour is an atom of the current recursion path; a non-empty path
\* handed back by findPath starts with an atom that occurs again later, and
\* the atoms between the two occurrences form a simple cycle of the bonds.
ClosureReportedOnPath ==
    LET recurs(k) == (k > 1) /\ (name(fs_buffer[k]) = name(fs_buffer[1]))
        simple(cycle) ==
            /\ Len(cycle) >= 3
            /\ \A i \in 1..Len(cycle) : \A j \in 1..Len(cycle) :
                  (i # j) => name(cycle[i]) # name(cycle[j])
            /\ \A i \in 1..Len(cycle) :
                  {name(cycle[i]), name(cycle[(i % Len(cycle)) + 1])}
                      \in fs_mm.bonds
    IN  /\ \A r \in fs_reports : r.on_path
        /\ (fs_pc = "found" /\ fs_buffer # <<>>) =>
              /\ \E k \in 1..Len(fs_buffer) : recurs(k)
              /\ LET index == CHOOSE k \in 1..Len(fs_buffer) :
                                  recurs(k) /\ \A j \in 1..(k - 1) : ~recurs(j)
                 IN  simple(SubSeq(fs_buffer, 2, index))

\* C25, amended: whenever closes_ring answers that a neighbour closes a ring
\* while the frame has found nothing yet (the only answer line 998 acts on),
\* the neighbour is an atom of the current recursion path; a non-empty path
\* handed back by findPath starts with an atom that occurs again later, and
\* the atoms between the two occurrences form a simple cycle of the bonds.
ClosureTakenOnPath ==
    LET recurs(k) == (k > 1) /\ (name(fs_buffer[k]) = name(fs_buffer[1]))
        simple(cycle) ==
            /\ Len(cycle) >= 3
            /\ \A i \in 1..Len(cycle) : \A j \in 1..Len(cycle) :
                  (i # j) => name(cycle[i]) # name(cycle[j])
            /\ \A i \in 1..Len(cycle) :
                  {name(cycle[i]), name(cycle[(i % Len(cycle)) + 1])}
                      \in fs_mm.bonds
    IN  /\ \A r \in fs_reports : r.taken => r.on_path
        /\ (fs_pc = "found" /\ fs_buffer # <<>>) =>
              /\ \E k \in 1..Len(fs_buffer) : recurs(k)
              /\ LET index == CHOOSE k \in 1..Len(fs_buffer) :
                                  recurs(k) /\ \A j \in 1..(k - 1) : ~recurs(j)
                 IN  simple(SubSeq(fs_buffer, 2, index))

\* C25 witness: a search that started outside the ring has handed back a
\* path whose first atom recurs six places later, after closes_ring had
\* also answered TRUE for a neighbour whose frame had already returned.
StaleNeighbourReported ==
    /\ fs_pc = "found"
    /\ Len(fs_buffer) > 7
    /\ name(fs_buffer[7]) = name(fs_buffer[1])
    /\ [on_path |-> TRUE, taken |-> TRUE] \in fs_reports
    /\ [on_path |-> FALSE, taken |-> FALSE] \in fs_reports

\* C26: the search from atom 0 comes to an end on every monomer: while it
\* runs it is never stuck, its recursion is no deeper than the monomer has
\* atoms, and it has made at most one step more than twice the number of
\* bonds.
SearchIsBounded ==
    fs_pc = "search" =>
        /\ Len(fs_stack) >= 1
        /\ Len(fs_stack) <= Len(fs_mm.atoms)
        /\ Len(fs_stack) < MaxDepth
        /\ fs_steps <= 2 * Cardinality(fs_mm.bonds) + 1

\* C26 witness: the search of a monomer with two rings (eight atoms, nine
\* bonds) has ended with a path, more than six arcs into its history.
BridgedSearchEnded ==
    /\ fs_pc = "found"
    /\ Len(fs_mm.atoms) = 8
    /\ Cardinality(fs_mm.bonds) = 9
    /\ fs_buffer # <<>>
    /\ Len(fs_background) > 6

\* C27: when findPath hands back an empty path, or the ring has fewer than
\* two atoms, ringMembers, the constructor and examine_ring touch no vector
\* position that does not exist.
NoAccessOutsideRing ==
    (/\ fs_pc \in {"filtered", "built", "crashed"}
     /\ (fs_buffer = <<>>) \/ (Len(fs_ring) < 2))
        => fs_faults = {}

\* C28: for a ring of n atoms sugar_ring_bonds has n entries, every pair of
\* cyclically consecutive positions (0,1) .. (n-1,0) is measured by exactly
\* one of them, the two bonds of position 0 (the ring oxygen) are compared
\* with 1.430 A and every other bond with 1.530 A.
EveryRingBondMeasuredOnce ==
    er_pc = "examined" =>
        /\ Len(er_bonds) = er_size
        /\ \A k \in 0..(er_size - 1) :
              Cardinality({j \in 1..Len(er_bonds) :
                              {er_bonds[j].from, er_bonds[j].to}
                                  = {k, (k + 1) % er_size}}) = 1
        /\ \A j \in 1..Len(er_bonds) :
              er_bonds[j].ideal =
                  IF 0 \in {er_bonds[j].from, er_bonds[j].to} THEN 1430 ELSE 1530

\* C29: the configurational substituent returned by get_stereochemistry is
\* the sentinel XXX or an atom within 1.8 A of the configurational carbon
\* returned with it; it is never a substituent recorded for a carbon
\* visited earlier.
SubstituentBelongsToCarbon ==
    gs_pc \in {"done", "labelled"} =>
        \/ name(gs_configurational_substituent) = name(XXX)
        \/ separation(gs_mol, gs_configurational_substituent,
                      gs_configurational_carbon) < 180

====
